---- MODULE Spec2Model ----
(***************************************************************************)
(* A model of ratarmount (src/ratarmount.py): the stenciled file view, the *)
(* SQLite index creation, the index lifecycle and the FUSE read path.      *)
(*                                                                         *)
(* The module holds several specifications over one set of variables; each *)
(* specification drives one component and leaves the others at rest.       *)
(*   SpecSF    StenciledFile.read / seek / tell                            *)
(*   SpecIndex SQLiteIndexedTar.createIndex, one archive member per step   *)
(*   SpecRead  TarMount.getattr / readlink / read on a mounted archive     *)
(*   SpecMount SQLiteIndexedTar.__init__ over several mounts of an archive *)
(*             that changes in between, with the process killed at any     *)
(*             point of the index creation                                 *)
(***************************************************************************)
EXTENDS Integers, Sequences, FiniteSets, TLC

VARIABLES
    \* ---- StenciledFile ----
    offsets,      \* self.offsets: backing offset of every stencil
    sizes,        \* self.sizes: length of every stencil
    cumsizes,     \* self.cumsizes: prefix sums, length N+1
    offset,       \* self.offset: the virtual position
    fileobjPos,   \* position of the backing self.fileobj
    sfOp,         \* the last call: [op, arg, raised, before, afterSeek]
    sfResult,     \* what the last call returned: the bytes of a read
    \* ---- the archive and SQLiteIndexedTar.createIndex ----
    tarMembers,        \* the members of the archive on disk, in byte order
    mountRecursively,  \* self.mountRecursively
    compression,       \* self.compression: "", "bz2" or "gz"
    pc,                \* where createIndex stands
    scanned,           \* number of top-level members iterated so far
    tables,            \* names of the tables of the SQLite database
    files,             \* rows of table "files"
    filestmp,          \* rows of table "filestmp", in insertion order
    parentfolders,     \* rows of table "parentfolders"
    parentFolderCache, \* self.parentFolderCache
    \* ---- TarMount ----
    tarStats,          \* tarStats of TarMount.__init__: os.stat( pathToMount ) at mount time
    fuseOp,            \* the last FUSE call: [op, path, length, offset]
    fuseRet,           \* what it returned or raised
    serializationBackend, \* args.serialization_backend, as given on the command line
    tarFilePos,        \* the position of self.tarFile, the handle all reads share
    threads,           \* the reads under way in the threads of FUSE: [pc, pos, length, data, errno]
    \* ---- the index files and SQLiteIndexedTar.__init__ ----
    disk,              \* the file at each of possibleIndexFilePaths
    writable,          \* whether a file can be created at each of them
    archiveStat,       \* os.stat of the archive file now
    indexFileName,     \* self.indexFileName: a candidate, or 0 for None
    clearIndexCache,   \* the clearIndexCache argument of the mount under way
    created,           \* createIndex has run in the mount under way
    diskAtStart,       \* history: the index files the mount under way found
    crashed,           \* history: candidates whose file an interrupted creation left
    firstGetattr,      \* history: getattr of every path in the mount that created the file
    \* ---- _loadOrStoreCompressionOffsets, gzip ----
    tmpFiles,          \* the files made by tempfile.mkstemp that exist
    gzindex            \* the local gzindex: the name of one of them, or "None"

sfVars == <<offsets, sizes, cumsizes, offset, fileobjPos, sfOp, sfResult>>
ixVars == <<tarMembers, mountRecursively, compression, pc, scanned, tables, files, filestmp,
            parentfolders, parentFolderCache>>

\* What the FUSE calls of one thread leave alone: the threads of FUSE.
thVars == <<serializationBackend, tarFilePos, threads>>

rdVars == <<tarStats, fuseOp, fuseRet, thVars>>

\* What the steps of createIndex leave alone of the lifecycle's state.
gzVars == <<tmpFiles, gzindex>>

mtKept == <<gzVars, writable, archiveStat, indexFileName, clearIndexCache, diskAtStart, crashed,
            firstGetattr>>
mtVars == <<disk, created, mtKept>>

vars == <<sfVars, ixVars, rdVars, mtVars>>

\* The archive is read through IndexedBzip2File or IndexedGzipFile.
streamed == compression # ""

Compressions == {"", "bz2", "gz"}

\* possibleIndexFilePaths has two entries.
NumCandidates == 2
Candidates == 1..NumCandidates

None == [none |-> TRUE]
NoFile == [exists |-> FALSE]
NoStat == [st_mode |-> 0, st_size |-> 0, st_mtime |-> 0]

Min(a, b) == IF a < b THEN a ELSE b
Max(a, b) == IF a > b THEN a ELSE b

\* The components a specification does not drive stay at these values.
IxIdle ==
    /\ tarMembers = <<>>
    /\ mountRecursively = FALSE
    /\ compression = ""
    /\ pc = "idle"
    /\ scanned = 0
    /\ tables = {}
    /\ files = {}
    /\ filestmp = <<>>
    /\ parentfolders = {}
    /\ parentFolderCache = <<>>

NoFuseOp == [op |-> "none", path |-> <<>>, length |-> 0, offset |-> 0]
NoFuseRet == [errno |-> "", data |-> <<0, 0>>, link |-> <<>>, stat |-> <<>>]

\* The threads FUSE hands calls to when it runs multi-threaded.
NumThreads == 2
Threads == 1..NumThreads

IdleThread == [pc |-> "idle", pos |-> 0, length |-> 0, data |-> <<0, 0>>, errno |-> ""]

ThIdle ==
    /\ serializationBackend = "sqlite"
    /\ tarFilePos = 0
    /\ threads = [t \in Threads |-> IdleThread]

RdIdle ==
    /\ tarStats = NoStat
    /\ fuseOp = NoFuseOp
    /\ fuseRet = NoFuseRet
    /\ ThIdle

GzIdle ==
    /\ tmpFiles = {}
    /\ gzindex = "None"

MtIdle ==
    /\ GzIdle
    /\ disk = [c \in Candidates |-> NoFile]
    /\ writable = [c \in Candidates |-> FALSE]
    /\ archiveStat = NoStat
    /\ indexFileName = 0
    /\ clearIndexCache = FALSE
    /\ created = FALSE
    /\ diskAtStart = [c \in Candidates |-> NoFile]
    /\ crashed = {}
    /\ firstGetattr = [c \in Candidates |-> <<>>]

SFIdle ==
    /\ offsets = <<>>
    /\ sizes = <<>>
    /\ cumsizes = <<0>>
    /\ offset = 0
    /\ fileobjPos = 0
    /\ sfOp = [op |-> "init", arg |-> 0, raised |-> FALSE, before |-> 0, afterSeek |-> FALSE]
    /\ sfResult = <<>>

(***************************************************************************)
(* StenciledFile                                                           *)
(***************************************************************************)

\* Length of the backing file, the longest stencil and the longest stencil list.
BackingLen == 3
MaxStencilSize == 2
MaxStencils == 2
\* Largest read size requested, and how far a seek may leave [0, size].
MaxRead == 2
MaxSeekOut == 1

SEEK_SET == 0
SEEK_CUR == 1
SEEK_END == 2

\* The backing file holds at position p the byte p: every byte is distinct, so a
\* read from the wrong place is seen.  fileobj.read( n ) at position pos:
FileRead(pos, n) ==
    [ k \in 1..Max(0, Min(n, BackingLen - pos)) |-> pos + k - 1 ]

\* All stencil lists over the backing file: offset >= 0, size > 0 (the
\* constructor's assertions), each stencil inside the file, any order, repeats
\* allowed.
Stencil == { st \in (0..BackingLen - 1) \X (1..MaxStencilSize) : st[1] + st[2] <= BackingLen }
StencilLists == UNION { [ 1..n -> Stencil ] : n \in 1..MaxStencils }

RECURSIVE CumSizes(_)
CumSizes(sz) ==
    IF sz = <<>> THEN <<0>>
    ELSE LET front == CumSizes(SubSeq(sz, 1, Len(sz) - 1))
         IN Append(front, front[Len(front)] + sz[Len(sz)])

\* bisect.bisect_left( a, x ) on the 0-based list a (a[k+1] here is a[k] there).
RECURSIVE BisectLeftLoop(_, _, _, _)
BisectLeftLoop(a, x, lo, hi) ==
    IF lo < hi
    THEN LET mid == (lo + hi) \div 2
         IN IF a[mid + 1] < x THEN BisectLeftLoop(a, x, mid + 1, hi)
                              ELSE BisectLeftLoop(a, x, lo, mid)
    ELSE lo

bisect_left(a, x) == BisectLeftLoop(a, x, 0, Len(a))

\* _findStencil with bisect_left( cumsizes, offset ): a boundary offset
\* cumsizes[k] is attributed to the stencil that ends there.
FindStencilBoundaryLeft(cs, off) == Max(0, bisect_left(cs, off) - 1)

\* StenciledFile._findStencil: 0-based index of the stencil holding the virtual
\* offset off (len( sizes ) at and after the end).  Asserts off >= 0.
FindStencil(cs, off) == bisect_left(cs, off + 1) - 1

\* The loop of StenciledFile.read, with 0-based i; st = [size, i, offset, pos, result].
RECURSIVE ReadLoop(_)
ReadLoop(st) ==
    IF st.size > 0 /\ st.i < Len(sizes)
    THEN LET readableSize == Min(st.size, sizes[st.i + 1] - (st.offset - cumsizes[st.i + 1]))
         IN IF readableSize = 0
            THEN IF st.i + 1 >= Len(offsets)
                 THEN st
                 ELSE ReadLoop([st EXCEPT !.i = st.i + 1, !.pos = offsets[st.i + 2]])
            ELSE LET tmp == FileRead(st.pos, readableSize)
                 IN ReadLoop([st EXCEPT !.offset = st.offset + Len(tmp),
                                        !.pos = st.pos + Len(tmp),
                                        !.result = st.result \o tmp,
                                        !.size = st.size - readableSize])
    ELSE st

\* The virtual stream concat( backing[stencils] ).
RECURSIVE Virtual(_, _)
Virtual(offs, szs) ==
    IF offs = <<>> THEN <<>>
    ELSE FileRead(offs[1], szs[1]) \o Virtual(Tail(offs), Tail(szs))

TotalSize == cumsizes[Len(cumsizes)]

\* A call as remembered.  For a read: its size argument, the virtual position
\* before it, and whether the call before it was a seek (or the constructor's
\* seek) that did not raise.
Call(op, arg, raised) ==
    [op |-> op, arg |-> arg, raised |-> raised,
     before |-> IF op = "read" THEN offset ELSE 0,
     afterSeek |-> op = "read" /\ sfOp.op \in {"seek", "init"} /\ ~sfOp.raised]

NoCall == [op |-> "init", arg |-> 0, raised |-> FALSE, before |-> 0, afterSeek |-> FALSE]

\* StenciledFile.__init__: the lists, the prefix sums, then self.seek( 0 ).
SFInit ==
    /\ \E stencils \in StencilLists :
          /\ offsets = [ k \in 1..Len(stencils) |-> stencils[k][1] ]
          /\ sizes = [ k \in 1..Len(stencils) |-> stencils[k][2] ]
          /\ cumsizes = CumSizes([ k \in 1..Len(stencils) |-> stencils[k][2] ])
          /\ fileobjPos = stencils[1][1]
    /\ offset = 0
    /\ sfOp = NoCall
    /\ sfResult = <<>>
    /\ IxIdle
    /\ RdIdle
    /\ MtIdle

\* StenciledFile.read( size ).  _findStencil asserts offset >= 0, so a read at a
\* negative position raises and changes nothing.
SFRead(size) ==
    /\ sfOp' = Call("read", size, offset < 0)
    /\ IF offset < 0
       THEN /\ sfResult' = <<>>
            /\ UNCHANGED <<offset, fileobjPos>>
       ELSE LET size0 == IF size = -1 THEN TotalSize - offset ELSE size
                fin == ReadLoop([size |-> size0, i |-> FindStencil(cumsizes, offset),
                                 offset |-> offset, pos |-> fileobjPos, result |-> <<>>])
            IN /\ offset' = fin.offset
               /\ fileobjPos' = fin.pos
               /\ sfResult' = fin.result
    /\ UNCHANGED <<offsets, sizes, cumsizes>>
    /\ UNCHANGED <<ixVars, rdVars, mtVars>>

\* seek keeping the position at the start of the file when the target is
\* before it.
SeekTargetClamped(off, whence) ==
    Max(0, CASE whence = SEEK_CUR -> offset + off
             [] whence = SEEK_END -> TotalSize + off
             [] OTHER -> off)

\* The value seek assigns to self.offset.
SeekTarget(off, whence) ==
    CASE whence = SEEK_CUR -> offset + off
      [] whence = SEEK_END -> TotalSize + off
      [] OTHER -> off

\* StenciledFile.seek( offset, whence ): self.offset is assigned first, then
\* checked; past the end the backing file is left where it is.
SFSeek(off, whence) ==
    LET new == SeekTarget(off, whence)
        i == FindStencil(cumsizes, new)
    IN /\ offset' = new
       /\ sfOp' = Call("seek", 0, new < 0)
       /\ fileobjPos' = IF new < 0 \/ new >= TotalSize
                        THEN fileobjPos
                        ELSE offsets[i + 1] + (new - cumsizes[i + 1])
       /\ sfResult' = <<>>
       /\ UNCHANGED <<offsets, sizes, cumsizes>>
       /\ UNCHANGED <<ixVars, rdVars, mtVars>>

\* The seeks tried: every whence, every argument that leaves the position within
\* MaxSeekOut of [0, size].
SFNext ==
    \/ \E size \in -1..MaxRead : SFRead(size)
    \/ \E new \in -MaxSeekOut..TotalSize + MaxSeekOut :
          \/ SFSeek(new, SEEK_SET)
          \/ SFSeek(new - offset, SEEK_CUR)
          \/ SFSeek(new - TotalSize, SEEK_END)

SpecSF == SFInit /\ [][SFNext]_vars

VirtualStream == Virtual(offsets, sizes)

\* The stencil the spec names for a virtual position p < size: the leftmost
\* 0-based i with cumulative[i+1] > p.
LeftmostStencil(p) ==
    CHOOSE i \in 0..Len(sizes) - 1 :
        /\ cumsizes[i + 2] > p
        /\ \A j \in 0..i - 1 : cumsizes[j + 2] <= p

\* C2: every read issued after the constructor or after a seek that did not
\* raise returns the next bytes of concat( backing[stencils] ) from the virtual
\* position it started at, whatever the split of the reads, and returns fewer
\* bytes than asked for only at the end of the virtual stream.
C2_ReadsFollowVirtualStream ==
    (sfOp.op = "read" /\ ~sfOp.raised) =>
        /\ sfResult = SubSeq(VirtualStream, sfOp.before + 1, sfOp.before + Len(sfResult))
        /\ offset = sfOp.before + Len(sfResult)
        /\ (sfOp.arg >= 0 /\ Len(sfResult) < sfOp.arg) => offset >= TotalSize

\* C3: seek( p ) with 0 <= p <= size leaves the backing file at
\* offsets[i] + (p - cumulative[i]) for the leftmost i with cumulative[i+1] > p,
\* and one read of all remaining bytes right after it returns
\* concat( backing[stencils] )[p:].
C3_SeekThenReadAll ==
    /\ (sfOp.op = "seek" /\ ~sfOp.raised /\ offset < TotalSize) =>
           LET i == LeftmostStencil(offset)
           IN fileobjPos = offsets[i + 1] + (offset - cumsizes[i + 1])
    /\ (/\ sfOp.op = "read" /\ sfOp.afterSeek /\ ~sfOp.raised
        /\ sfOp.before <= TotalSize
        /\ (sfOp.arg = -1 \/ sfOp.arg >= TotalSize - sfOp.before)) =>
           sfResult = SubSeq(VirtualStream, sfOp.before + 1, TotalSize)

\* A read of everything after a seek into the middle of the first of two stencils
\* that do not touch in the backing file.
C3_Witness ==
    /\ sfOp.op = "read" /\ sfOp.afterSeek /\ sfOp.arg = -1
    /\ Len(sizes) = 2 /\ offsets[2] # offsets[1] + sizes[1]
    /\ sfOp.before > 0 /\ sfOp.before < cumsizes[2]
    /\ Len(sfResult) = TotalSize - sfOp.before

(***************************************************************************)
(* The archive                                                             *)
(***************************************************************************)

\* tarfile's block size and the two zero blocks that end an archive.
BLOCKSIZE == 512
EOFBLOCKS == 2

\* stat's file type bits and the permission bits the code names.
S_IFDIR == 16384
S_IFREG == 32768
S_IFLNK == 40960
S_IFCHR == 8192
S_IFIFO == 4096
S_IFMT == 61440
S_IRUSR == 256
S_IXUSR == 64
S_IRGRP == 32
S_IXGRP == 8
S_IROTH == 4
S_IXOTH == 1
WRITE_BITS == 146
PERM_BITS == 511
SYNTH_DIR_PERM == 365

\* tarfile's type flags.
REGTYPE == "0"
LNKTYPE == "1"
SYMTYPE == "2"
CHRTYPE == "3"
DIRTYPE == "5"
FIFOTYPE == "6"
GNUTYPE_SPARSE == "S"

RECURSIVE BitAnd(_, _)
BitAnd(a, b) ==
    IF a = 0 \/ b = 0 THEN 0
    ELSE 2 * BitAnd(a \div 2, b \div 2) + (IF a % 2 = 1 /\ b % 2 = 1 THEN 1 ELSE 0)

BitOr(a, b) == a + b - BitAnd(a, b)

\* a & ~b
BitClear(a, b) == a - BitAnd(a, b)

Front(s) == SubSeq(s, 1, Len(s) - 1)
Last(s) == s[Len(s)]
Range(s) == { s[k] : k \in 1..Len(s) }

\* A member of an archive as tarfile reports it.  name and linkname are paths,
\* written as their sequence of components; size is the logical size, stored the
\* number of payload bytes in the archive (smaller for a sparse member); kind
\* says what the payload is: "data", a valid TAR ("tar", whose members are
\* inner) or bytes that are no TAR header ("junk").
Entry(name, type, size, mode, linkname) ==
    [name |-> name, type |-> type, size |-> size, stored |-> size, mode |-> mode,
     linkname |-> linkname, kind |-> "data", inner |-> <<>>]

\* Bytes a payload of n bytes takes: whole blocks.
Block(n) == ((n + BLOCKSIZE - 1) \div BLOCKSIZE) * BLOCKSIZE

\* tarfile skips the payload blocks of regular members only.
IsFile(m) == m.type \in {REGTYPE, GNUTYPE_SPARSE}
IsSparse(m) == m.type = GNUTYPE_SPARSE

MemberLen(m) == BLOCKSIZE + (IF IsFile(m) THEN Block(m.stored) ELSE 0)

RECURSIVE MembersLen(_)
MembersLen(ms) == IF ms = <<>> THEN 0 ELSE MemberLen(Head(ms)) + MembersLen(Tail(ms))

\* Length of the archive stream: the members and the end-of-archive blocks.
TarLen(ms) == MembersLen(ms) + EOFBLOCKS * BLOCKSIZE

\* tarInfo.offset taken at the end of the member.
MemberOffsetOfNext(ms, k) == MembersLen(SubSeq(ms, 1, k))

\* Offset of the header of member k (1-based) from the start of its archive.
MemberOffset(ms, k) == MembersLen(SubSeq(ms, 1, k - 1))

NestedTar(name, mode, inner) ==
    [name |-> name, type |-> REGTYPE, size |-> TarLen(inner), stored |-> TarLen(inner),
     mode |-> mode, linkname |-> <<>>, kind |-> "tar", inner |-> inner]

Junk(name, size, mode) ==
    [Entry(name, REGTYPE, size, mode, <<>>) EXCEPT !.kind = "junk"]

Sparse(name, size, stored, mode) ==
    [Entry(name, GNUTYPE_SPARSE, size, mode, <<>>) EXCEPT !.stored = stored]

\* The names that end in ".tar".
TarNames == {"inner.tar"}

\* The members archives are built from.  "a" is there twice with different size
\* and mode; "inner.tar" is there as a valid TAR and as junk.
MemberPool ==
    { Entry(<<"a">>, REGTYPE, 10, 420, <<>>),
      Entry(<<"a">>, REGTYPE, 0, 146, <<>>),
      Entry(<<".", "dir", "b">>, REGTYPE, 513, 384, <<>>),
      Entry(<<"dir">>, DIRTYPE, 0, 493, <<>>),
      Entry(<<"link">>, SYMTYPE, 0, 511, <<"a">>),
      Entry(<<"hard">>, LNKTYPE, 0, 420, <<"a">>),
      Entry(<<"loop">>, LNKTYPE, 0, 420, <<"loop">>),
      NestedTar(<<"inner.tar">>, 420, <<Entry(<<"hello">>, REGTYPE, 5, 420, <<>>)>>),
      Junk(<<"inner.tar">>, 300, 416) }

\* Most members of an archive.
MaxMembers == 2

Archives == UNION { [ 1..n -> MemberPool ] : n \in 0..MaxMembers }

(***************************************************************************)
(* SQLiteIndexedTar.createIndex                                            *)
(***************************************************************************)

\* os.path.normpath of a relative path, on its components.
RECURSIVE NormLoop(_, _, _)
NormLoop(comps, new, isAbs) ==
    IF comps = <<>> THEN new
    ELSE LET c == Head(comps)
         IN IF c \in {"", "."}
            THEN NormLoop(Tail(comps), new, isAbs)
            ELSE IF c # ".." \/ (~isAbs /\ new = <<>>) \/ (new # <<>> /\ Last(new) = "..")
                 THEN NormLoop(Tail(comps), Append(new, c), isAbs)
                 ELSE IF new # <<>>
                      THEN NormLoop(Tail(comps), Front(new), isAbs)
                      ELSE NormLoop(Tail(comps), new, isAbs)

\* os.path.normpath( tarInfo.name ).lstrip( '/' ): "." when nothing is left.
NormName(name) ==
    LET new == NormLoop(name, <<>>, FALSE)
    IN IF new = <<>> THEN <<".">> ELSE new

\* A row of "files" / "filestmp", columns as in the CREATE TABLE.
Row(path, name, offsetheader, off, size, mtime, mode, type, linkname, uid, gid, istar, issparse) ==
    [path |-> path, name |-> name, offsetheader |-> offsetheader, offset |-> off,
     size |-> size, mtime |-> mtime, mode |-> mode, type |-> type, linkname |-> linkname,
     uid |-> uid, gid |-> gid, istar |-> istar, issparse |-> issparse]

Key(row) == <<row.path, row.name>>

\* An INSERT that leaves the row of an equal key where it is.
InsertFirstWins(rows, row) ==
    IF \E r \in rows : Key(r) = Key(row) THEN rows ELSE rows \cup {row}

\* INSERT OR REPLACE INTO "files": PRIMARY KEY (path,name).
InsertOrReplace(rows, row) == { r \in rows : Key(r) # Key(row) } \cup {row}

\* INSERT OR IGNORE INTO "files".
InsertOrIgnore(rows, row) ==
    IF \E r \in rows : Key(r) = Key(row) THEN rows ELSE rows \cup {row}

\* Size of self.parentFolderCache above which it is cut, and what is kept.
CacheLimit == 16
CacheKeep == 8

\* _tryAddParentFolders inserting what the cut cache still holds.
TryAddParentFoldersKept(db, path) ==
    LET paths == [ i \in 1..Len(path) |-> <<SubSeq(path, 1, i - 1), path[i]>> ]
        new == SelectSeq(paths, LAMBDA p : p \notin Range(db.cache))
        grown == db.cache \o new
        cut == IF Len(grown) > CacheLimit
               THEN SubSeq(grown, Len(grown) - CacheKeep + 1, Len(grown))
               ELSE grown
    IN IF new = <<>> THEN db
       ELSE [db EXCEPT !.cache = cut,
                       !.parentfolders = db.parentfolders \cup (Range(new) \cap Range(cut))]

\* _tryAddParentFolders without the final slice: the cache only ever grows.
TryAddParentFoldersNoCut(db, path) ==
    LET paths == [ i \in 1..Len(path) |-> <<SubSeq(path, 1, i - 1), path[i]>> ]
        new == SelectSeq(paths, LAMBDA p : p \notin Range(db.cache))
    IN IF new = <<>> THEN db
       ELSE [db EXCEPT !.cache = db.cache \o new,
                       !.parentfolders = db.parentfolders \cup Range(new)]

\* SQLiteIndexedTar._tryAddParentFolders( path ), path = '/a/b' as <<"a", "b">>.
TryAddParentFolders(db, path) ==
    LET paths == [ i \in 1..Len(path) |-> <<SubSeq(path, 1, i - 1), path[i]>> ]
        new == SelectSeq(paths, LAMBDA p : p \notin Range(db.cache))
        grown == db.cache \o new
    IN IF new = <<>> THEN db
       ELSE [db EXCEPT !.cache = IF Len(grown) > CacheLimit
                                 THEN SubSeq(grown, Len(grown) - CacheKeep + 1, Len(grown))
                                 ELSE grown,
                       !.parentfolders = db.parentfolders \cup Range(new)]

\* _setFileInfo inserting into "filestmp", as the CREATE TABLE comment intends.
SetFileInfoTmp(db, row) ==
    TryAddParentFolders([db EXCEPT !.filestmp = Append(db.filestmp, row)], row.path)

\* SQLiteIndexedTar._setFileInfo( row ): the row goes into "files".
SetFileInfo(db, row) ==
    TryAddParentFolders([db EXCEPT !.files = InsertOrReplace(db.files, row)], row.path)

\* The mode createIndex computes: tarInfo.mode with the type bits or'ed in.
TypeBits(m) ==
    CASE m.type = DIRTYPE -> S_IFDIR
      [] IsFile(m) -> S_IFREG
      [] m.type = SYMTYPE -> S_IFLNK
      [] m.type = CHRTYPE -> S_IFCHR
      [] m.type = FIFOTYPE -> S_IFIFO
      [] OTHER -> 0

\* The mode of a member found to be a TAR, without the execute bits.
TarDirModeNoExec(mode) == BitOr(BitAnd(mode, PERM_BITS), S_IFDIR)

\* The mode of a member found to be a TAR: a directory, listable where readable.
TarDirMode(mode) ==
    LET m0 == BitOr(BitAnd(mode, PERM_BITS), S_IFDIR)
        m1 == IF BitAnd(m0, S_IRUSR) # 0 THEN BitOr(m0, S_IXUSR) ELSE m0
        m2 == IF BitAnd(m1, S_IRGRP) # 0 THEN BitOr(m1, S_IXGRP) ELSE m1
    IN IF BitAnd(m2, S_IROTH) # 0 THEN BitOr(m2, S_IXOTH) ELSE m2

\* tarfile.open on the payload of a member: mode 'r|' (streamed) counts its
\* offsets from 0 and raises ReadError on an invalid first header; mode 'r:'
\* starts at the file position, where tarfile takes an invalid header for the
\* end of the archive.
NestedOpens(m, isStreamed) == m.kind = "tar" \/ ~isStreamed

\* The nested createIndex called without a stream offset.
NestedStreamOffsetZero(isStreamed, globalOffset) == 0

\* The streamOffset createIndex passes to the nested createIndex.
NestedStreamOffset(isStreamed, globalOffset) == IF isStreamed THEN globalOffset ELSE 0

\* The nested createIndex prefixing the members with pathPrefix alone.
NestedPrefixOuter(pathPrefix, fullPath) == pathPrefix

\* The pathPrefix createIndex passes to the nested createIndex.
NestedPrefix(pathPrefix, fullPath) == fullPath

\* One iteration of createIndex's loop over the members (ctx: pathPrefix,
\* streamOffset, and base, the file position tarfile counts offsets from),
\* and the loop itself; a nested createIndex adds "versions" (its step 6).
\* The member is handed to a nested createIndex, which gets to its commit.
Descends(tarInfo, isRecursive, isStreamed) ==
    /\ isRecursive /\ IsFile(tarInfo) /\ Last(tarInfo.name) \in TarNames
    /\ NestedOpens(tarInfo, isStreamed)

RECURSIVE IndexOne(_, _, _, _), IndexAll(_, _, _, _)
IndexOne(db, ms, k, ctx) ==
    LET tarInfo == ms[k]
        tarOffset == ctx.base + MemberOffset(ms, k)
        tarOffsetData == tarOffset + BLOCKSIZE
        globalOffset == ctx.streamOffset + tarOffsetData
        globalOffsetHeader == ctx.streamOffset + tarOffset
        mode == BitOr(tarInfo.mode, TypeBits(tarInfo))
        fullPath == ctx.pathPrefix \o NormName(tarInfo.name)
        isTar == Descends(tarInfo, ctx.recursive, ctx.streamed)
        nestedMembers == IF tarInfo.kind = "tar" THEN tarInfo.inner ELSE <<>>
        nested == IF isTar
                  THEN LET sub == IndexAll(db, nestedMembers, 1,
                                           [ctx EXCEPT !.pathPrefix = NestedPrefix(ctx.pathPrefix, fullPath),
                                                       !.streamOffset = NestedStreamOffset(ctx.streamed, globalOffset),
                                                       !.base = IF ctx.streamed THEN 0 ELSE globalOffset])
                       IN [sub EXCEPT !.tables = sub.tables \cup {"versions"}]
                  ELSE db
        row == Row(Front(fullPath), Last(fullPath), globalOffsetHeader, globalOffset,
                   tarInfo.size, 1, IF isTar THEN TarDirMode(mode) ELSE mode,
                   tarInfo.type, tarInfo.linkname, 1, 1, isTar, IsSparse(tarInfo))
    IN SetFileInfo(nested, row)

IndexAll(db, ms, k, ctx) ==
    IF k > Len(ms) THEN db ELSE IndexAll(IndexOne(db, ms, k, ctx), ms, k + 1, ctx)

TopContext(isRecursive, isStreamed) ==
    [pathPrefix |-> <<>>, streamOffset |-> 0, base |-> 0,
     recursive |-> isRecursive, streamed |-> isStreamed]

\* cleanupDatabase stamping the rows it makes with the number of times the
\* index has been created.
SynthRowStamped(key) ==
    Row(key[1], key[2], 0, 0, 1, IF clearIndexCache THEN 2 ELSE 1,
        BitOr(SYNTH_DIR_PERM, S_IFDIR), DIRTYPE, <<>>, 0, 0, FALSE, FALSE)

\* cleanupDatabase making regular-file rows of the "parentfolders" rows.
SynthRowAsFile(key) ==
    Row(key[1], key[2], 0, 0, 1, 0, BitOr(SYNTH_DIR_PERM, S_IFREG), REGTYPE, <<>>, 0, 0, FALSE, FALSE)

\* The row cleanupDatabase makes of a "parentfolders" row.
SynthRow(key) ==
    Row(key[1], key[2], 0, 0, 1, 0, BitOr(SYNTH_DIR_PERM, S_IFDIR), DIRTYPE, <<>>, 0, 0, FALSE, FALSE)

RECURSIVE InsertAllOrReplace(_, _)
InsertAllOrReplace(rows, seq) ==
    IF seq = <<>> THEN rows
    ELSE InsertAllOrReplace(InsertOrReplace(rows, Head(seq)), Tail(seq))

\* The statements of cleanupDatabase, which executescript runs one by one:
\* "filestmp" copied into "files" in (path, name, rowid) order, so that of
\* equal keys the last inserted stays; "filestmp" dropped; a directory row for
\* each "parentfolders" row that has none; "parentfolders" dropped.
CleanupStatement(db, i) ==
    CASE i = 1 -> [db EXCEPT !.files = InsertAllOrReplace(db.files, db.filestmp)]
      [] i = 2 -> [db EXCEPT !.filestmp = <<>>, !.tables = db.tables \ {"filestmp"}]
      [] i = 3 -> [db EXCEPT !.files = db.files \cup
                                 { SynthRow(key) : key \in { q \in db.parentfolders :
                                                               ~\E r \in db.files : Key(r) = q } }]
      [] OTHER -> [db EXCEPT !.parentfolders = {}, !.tables = db.tables \ {"parentfolders"}]

\* The first n statements of cleanupDatabase.
RECURSIVE CleanupUpTo(_, _)
CleanupUpTo(db, n) == IF n = 0 THEN db ELSE CleanupStatement(CleanupUpTo(db, n - 1), n)

NumCleanupStatements == 4

\* cleanupDatabase with OR REPLACE in place of OR IGNORE: a directory row for
\* every "parentfolders" row.
CleanupReplacing(db) ==
    [db EXCEPT !.files = { r \in db.files : Key(r) \notin db.parentfolders } \cup
                         { SynthRow(key) : key \in db.parentfolders },
               !.filestmp = <<>>, !.parentfolders = {},
               !.tables = db.tables \ {"filestmp", "parentfolders"}]

\* createIndex step 5: the whole of cleanupDatabase.
Cleanup(db) == CleanupUpTo(db, NumCleanupStatements)

EmptyDb ==
    [files |-> {}, filestmp |-> <<>>, parentfolders |-> {}, cache |-> <<>>,
     tables |-> {"files", "filestmp", "parentfolders"}]

\* createIndex from the CREATE TABLEs to the commit, on a new database.
CreateIndex(ms, isRecursive, isStreamed) ==
    LET db == Cleanup(IndexAll(EmptyDb, ms, 1, TopContext(isRecursive, isStreamed)))
    IN [db EXCEPT !.tables = db.tables \cup {"versions"}]

Db == [files |-> files, filestmp |-> filestmp, parentfolders |-> parentfolders,
       cache |-> parentFolderCache, tables |-> tables]

SetDb(db) ==
    /\ files' = db.files
    /\ filestmp' = db.filestmp
    /\ parentfolders' = db.parentfolders
    /\ parentFolderCache' = db.cache
    /\ tables' = db.tables

\* createIndex is called on an archive; no database is open yet.  Without a
\* file name (the fileObject of __init__) the database is in memory.
IxInit ==
    /\ tarMembers \in Archives
    /\ mountRecursively \in BOOLEAN
    /\ compression \in Compressions
    /\ pc = "start"
    /\ scanned = 0
    /\ tables = {}
    /\ files = {}
    /\ filestmp = <<>>
    /\ parentfolders = {}
    /\ parentFolderCache = <<>>
    /\ SFIdle
    /\ RdIdle
    /\ MtIdle

\* An index file: its tables, the rows of "files", and the tarstats of its
\* "metadata" (None without).
IndexFile(tbls, rows, stats) ==
    [exists |-> TRUE, tables |-> tbls, files |-> rows, tarstats |-> stats]

\* The rows of "files" that are committed to the index file.
Committed == IF indexFileName = 0 THEN {} ELSE disk[indexFileName].files

\* The database is the file at self.indexFileName, if there is one: the
\* tables as they are now and the rows that are committed.
Persist(rows, stats) ==
    disk' = IF indexFileName = 0 THEN disk
            ELSE [disk EXCEPT ![indexFileName] = IndexFile(tables', rows, stats)]

\* The length of the archive file: that of its members and the end-of-archive
\* blocks, or what os.stat tells when the file has been cut.
FileSize == IF archiveStat = NoStat THEN TarLen(tarMembers) ELSE archiveStat.st_size

\* tarfile yielding the members whose data is all there.
NumYieldedWhole(ms, size) ==
    Cardinality({ k \in 1..Len(ms) : MemberOffset(ms, k) + MemberLen(ms[k]) <= size })

\* The members tarfile yields of an archive of which the first size bytes are
\* there: those whose header block is; behind them the iteration ends, with
\* or without ReadError, which createIndex catches.
NumYielded(ms, size) ==
    Cardinality({ k \in 1..Len(ms) : MemberOffset(ms, k) + BLOCKSIZE <= size })

\* tarfile.open raises ReadError when the first header block is not there.
CanOpen(size) == size >= BLOCKSIZE

\* createIndex step 1 and 2: the CREATE TABLEs, then tarfile.open, whose
\* ReadError createIndex raises again.
CreateTables ==
    /\ pc = "start"
    /\ pc' = IF CanOpen(FileSize) THEN "scan" ELSE "failed"
    /\ tables' = {"files", "filestmp", "parentfolders"}
    /\ Persist({}, None)
    /\ created' = TRUE
    /\ UNCHANGED <<tarMembers, mountRecursively, compression, scanned, files, filestmp,
                   parentfolders, parentFolderCache>>
    /\ UNCHANGED <<sfVars, rdVars, mtKept>>

\* createIndex step 3 and 4: the next member of the archive, with the descent
\* into it when it is a TAR; the nested createIndex commits.
IndexMember ==
    /\ pc = "scan"
    /\ scanned < NumYielded(tarMembers, FileSize)
    /\ SetDb(IndexOne(Db, tarMembers, scanned + 1, TopContext(mountRecursively, streamed)))
    /\ scanned' = scanned + 1
    /\ Persist(IF Descends(tarMembers[scanned + 1], mountRecursively, streamed)
               THEN files' ELSE Committed, None)
    /\ UNCHANGED <<tarMembers, mountRecursively, compression, pc, created>>
    /\ UNCHANGED <<sfVars, rdVars, mtKept>>

\* createIndex step 5: cleanupDatabase.
Finalize ==
    /\ pc = "scan"
    /\ scanned = NumYielded(tarMembers, FileSize)
    /\ SetDb(Cleanup(Db))
    /\ pc' = "finalized"
    /\ Persist(files', None)
    /\ UNCHANGED <<tarMembers, mountRecursively, compression, scanned, created>>
    /\ UNCHANGED <<sfVars, rdVars, mtKept>>

\* createIndex step 6: the "versions" table, its rows, the commit.
AddVersions ==
    /\ pc = "finalized"
    /\ tables' = tables \cup {"versions"}
    /\ pc' = "done"
    /\ Persist(files, None)
    /\ UNCHANGED <<tarMembers, mountRecursively, compression, scanned, files, filestmp,
                   parentfolders, parentFolderCache, created>>
    /\ UNCHANGED <<sfVars, rdVars, mtKept>>

IxNext == CreateTables \/ IndexMember \/ Finalize \/ AddVersions

SpecIndex == IxInit /\ [][IxNext]_vars

(***************************************************************************)
(* SQLiteIndexedTar.getFileInfo and TarMount                               *)
(***************************************************************************)

\* How deep a FUSE handler may call itself before Python raises RecursionError.
RecursionLimit == 3

\* '/' + os.path.normpath( fullPath ).lstrip( '/' ), then rsplit( '/', 1 ):
\* the key of '/' is ('', '').
LookupKey(fullPath) ==
    LET norm == NormLoop(fullPath, <<>>, TRUE)
    IN IF norm = <<>> THEN <<<<>>, "">> ELSE <<Front(norm), Last(norm)>>

\* getFileInfo answering any path with the row of its first component.
GetFileInfoFirstComponent(rows, fullPath) ==
    LET norm == NormLoop(fullPath, <<>>, TRUE)
        key == IF norm = <<>> THEN <<<<>>, "">> ELSE <<<<>>, norm[1]>>
    IN IF \E r \in rows : Key(r) = key
       THEN CHOOSE r \in rows : Key(r) = key
       ELSE None

\* SQLiteIndexedTar.getFileInfo( fullPath, listDir = False ): the row or None.
GetFileInfo(rows, fullPath) ==
    LET key == LookupKey(fullPath)
    IN IF \E r \in rows : Key(r) = key
       THEN CHOOSE r \in rows : Key(r) = key
       ELSE None

S_ISREG(mode) == BitAnd(mode, S_IFMT) = S_IFREG
S_ISLNK(mode) == BitAnd(mode, S_IFMT) = S_IFLNK
S_ISDIR(mode) == BitAnd(mode, S_IFMT) = S_IFDIR

\* TarMount.__init__: self.rootFileInfo, from the archive's own stat.
RootFileInfoOf(st) ==
    Row(<<>>, "", 0, 0, st.st_size, st.st_mtime, TarDirMode(st.st_mode), DIRTYPE, <<>>, 1, 1,
        TRUE, FALSE)

RootFileInfo == RootFileInfoOf(tarStats)

\* The "hard link" test of getattr and read.
IsHardLink(fileInfo) ==
    ~S_ISREG(fileInfo.mode) /\ ~S_ISLNK(fileInfo.mode) /\ fileInfo.linkname # <<>>

Errno(e) == [NoFuseRet EXCEPT !.errno = e]

\* getattr's statDict with the mode as stored.
StatDictAsStored(fileInfo) ==
    [st_size |-> fileInfo.size, st_mtime |-> fileInfo.mtime, st_mode |-> fileInfo.mode,
     st_uid |-> fileInfo.uid, st_gid |-> fileInfo.gid, st_nlink |-> 2]

\* getattr's statDict: the write bits are cleared.
StatDict(fileInfo) ==
    [st_size |-> fileInfo.size, st_mtime |-> fileInfo.mtime,
     st_mode |-> BitClear(fileInfo.mode, WRITE_BITS),
     st_uid |-> fileInfo.uid, st_gid |-> fileInfo.gid, st_nlink |-> 2]

\* TarMount.getattr( path ) over the rows of an index and a root entry; depth
\* counts the calls of getattr by itself.
RECURSIVE GetattrOn(_, _, _, _)
GetattrOn(rows, root, path, depth) ==
    IF depth > RecursionLimit THEN Errno("RecursionError")
    ELSE LET fileInfo == IF path = <<>> THEN root ELSE GetFileInfo(rows, path)
         IN IF fileInfo = None THEN Errno("ENOENT")
            ELSE IF IsHardLink(fileInfo)
                 THEN GetattrOn(rows, root, fileInfo.linkname, depth + 1)
                 ELSE [NoFuseRet EXCEPT !.stat = StatDict(fileInfo)]

\* TarMount.getattr( path ) of the mount that is up.
GetattrCall(path, depth) == GetattrOn(files, RootFileInfo, path, depth)

\* self.tarFile.seek( pos ); self.tarFile.read( length ): the bytes [from, to)
\* of the archive stream.  Every read seeks first, so the position the stream
\* is left at is not kept.
TarFileRead(pos, length) ==
    <<pos, Max(pos, Min(pos + length, TarLen(tarMembers)))>>

\* The sparse branch of read: tarfile expands the member cut out by a
\* StenciledFile; the bytes [from, to) of the expanded content.
SparseRead(fileInfo, length, off) ==
    <<off, Max(off, Min(off + length, fileInfo.size))>>

\* TarMount.read( path, length, offset ); depth counts the calls of read by itself.
RECURSIVE ReadCall(_, _, _, _)
ReadCall(path, length, off, depth) ==
    IF depth > RecursionLimit THEN Errno("RecursionError")
    ELSE LET fileInfo == GetFileInfo(files, path)
         IN IF fileInfo = None THEN Errno("ENOENT")
            ELSE IF IsHardLink(fileInfo) /\ fileInfo.linkname # path
                 THEN ReadCall(fileInfo.linkname, length, off, depth + 1)
                 ELSE IF fileInfo.issparse
                      THEN [NoFuseRet EXCEPT !.data = SparseRead(fileInfo, length, off)]
                      ELSE [NoFuseRet EXCEPT !.data = TarFileRead(fileInfo.offset + off, length)]

\* The paths, lengths and offsets the FUSE calls are tried with.
QueryPaths ==
    { <<>>, <<"a">>, <<"dir">>, <<"dir", "b">>, <<"link">>, <<"hard">>, <<"loop">>,
      <<"inner.tar">>, <<"inner.tar", "hello">>, <<"missing">>, <<"dir", "missing">> }
ReadLengths == {0, 3, 600}
ReadOffsets == {0, 2, 10}

\* st_mode of the archive file: a regular file, rw-r----- or r--r--r--.
ArchiveModes == {33184, 33060}

\* The mount is up: the index of the archive is in "files".
RdInit ==
    /\ tarMembers \in Archives
    /\ mountRecursively \in BOOLEAN
    /\ compression \in Compressions
    /\ LET db == CreateIndex(tarMembers, mountRecursively, streamed)
       IN /\ files = db.files
          /\ filestmp = db.filestmp
          /\ parentfolders = db.parentfolders
          /\ parentFolderCache = db.cache
          /\ tables = db.tables
    /\ pc = "mounted"
    /\ scanned = Len(tarMembers)
    /\ tarStats \in { [st_mode |-> m, st_size |-> TarLen(tarMembers), st_mtime |-> 1] :
                       m \in ArchiveModes }
    /\ fuseOp = NoFuseOp
    /\ fuseRet = NoFuseRet
    /\ ThIdle
    /\ SFIdle
    /\ MtIdle

\* The FUSE loop runs single-threaded (nothreads): a call is handed to
\* TarMount when the one before it has returned.
FuseGetattr(path) ==
    /\ pc = "mounted"
    /\ fuseOp = NoFuseOp
    /\ fuseOp' = [op |-> "getattr", path |-> path, length |-> 0, offset |-> 0]
    /\ fuseRet' = GetattrCall(path, 0)
    /\ UNCHANGED <<tarStats, thVars>>
    /\ UNCHANGED <<sfVars, ixVars, mtVars>>

\* TarMount.readlink( path ).
FuseReadlink(path) ==
    LET fileInfo == GetFileInfo(files, path)
    IN /\ pc = "mounted"
       /\ fuseOp = NoFuseOp
       /\ fuseOp' = [op |-> "readlink", path |-> path, length |-> 0, offset |-> 0]
       /\ fuseRet' = IF fileInfo = None THEN Errno("ENOENT")
                     ELSE [NoFuseRet EXCEPT !.link = fileInfo.linkname]
       /\ UNCHANGED <<tarStats, thVars>>
       /\ UNCHANGED <<sfVars, ixVars, mtVars>>

FuseRead(path, length, off) ==
    LET ret == ReadCall(path, length, off, 0)
    IN /\ pc = "mounted"
       /\ fuseOp = NoFuseOp
       /\ fuseOp' = [op |-> "read", path |-> path, length |-> length, offset |-> off]
       /\ fuseRet' = ret
       /\ UNCHANGED <<tarStats, thVars>>
       /\ UNCHANGED <<sfVars, ixVars, mtVars>>

\* The call's result has been handed back to FUSE.
FuseReturn ==
    /\ fuseOp # NoFuseOp
    /\ fuseOp' = NoFuseOp
    /\ fuseRet' = NoFuseRet
    /\ UNCHANGED <<tarStats, thVars>>
    /\ UNCHANGED <<sfVars, ixVars, mtVars>>

RdNext ==
    \/ FuseReturn
    \/ \E path \in QueryPaths : FuseGetattr(path)
    \/ \E path \in QueryPaths : FuseReadlink(path)
    \/ \E path \in QueryPaths, length \in ReadLengths, off \in ReadOffsets :
          FuseRead(path, length, off)

SpecRead == RdInit /\ [][RdNext]_vars


(***************************************************************************)
(* The index lifecycle: SQLiteIndexedTar.__init__ over several mounts      *)
(***************************************************************************)

\* The modification times the archive file is given.
MaxMtime == 2

\* The archives the lifecycle is run on: one member each; two of them are of
\* the same size, one holds a nested TAR.
MountArchives ==
    { ms \in Archives : /\ Len(ms) = 1
                        /\ ms[1].name \in {<<"dir">>, <<"link">>, <<"inner.tar">>}
                        /\ ms[1].kind # "junk" }

\* The values of printDebug (--debug).
DebugLevels == {0, 1}

\* os.stat of the archive file.
StatOf(ms, mtime, mode) == [st_mode |-> mode, st_size |-> TarLen(ms), st_mtime |-> mtime]

\* loadIndex reading every stored tarstats as changed.
TarStatsChangedAlways(values, tarStatsNow) == values # None

\* loadIndex comparing the size alone.
TarStatsChangedSizeOnly(values, tarStatsNow) ==
    /\ values # None
    /\ tarStatsNow.st_size # values.st_size

\* loadIndex: the stored tarstats differ from the archive's in size or mtime.
TarStatsChanged(values, tarStatsNow) ==
    /\ values # None
    /\ \/ tarStatsNow.st_size # values.st_size
       \/ tarStatsNow.st_mtime # values.st_mtime

\* loadIndex returns without raising.
LoadIndex(indexFile, tarStatsNow) ==
    /\ ~("bzip2blocks" \in indexFile.tables /\ "versions" \notin indexFile.tables)
    /\ "files" \in indexFile.tables
    /\ ~("filestmp" \in indexFile.tables \/ "parentfolders" \in indexFile.tables)
    /\ "metadata" \in indexFile.tables => ~TarStatsChanged(indexFile.tarstats, tarStatsNow)

\* _tryLoadIndex on candidate c and the candidates after it, as __init__
\* loops over them: a file that does not load is removed, the first that
\* loads ends the loop.
RECURSIVE TryLoadIndex(_, _)
TryLoadIndex(st, c) ==
    IF c > NumCandidates \/ st.loaded # 0 THEN st
    ELSE IF ~st.disk[c].exists THEN TryLoadIndex(st, c + 1)
    ELSE IF LoadIndex(st.disk[c], archiveStat) THEN [st EXCEPT !.loaded = c]
    ELSE TryLoadIndex([st EXCEPT !.disk[c] = NoFile], c + 1)

\* clearIndexCache removing the first candidate alone.
ClearFirstCandidate(d) == [d EXCEPT ![1] = NoFile]

\* clearIndexCache: every candidate that is a file is removed.
ClearIndexCache(d) == [c \in Candidates |-> NoFile]

\* The search for a place for the index taking the last candidate a file can
\* be created at.
LastWritable ==
    IF \E c \in Candidates : writable[c]
    THEN CHOOSE c \in Candidates : writable[c] /\ \A k \in c + 1..NumCandidates : ~writable[k]
    ELSE 0

\* The first candidate a file can be created at, 0 when there is none.
FirstWritable ==
    IF \E c \in Candidates : writable[c]
    THEN CHOOSE c \in Candidates : writable[c] /\ \A k \in 1..c - 1 : ~writable[k]
    ELSE 0

\* The table _loadOrStoreCompressionOffsets adds when it is not there.
OffsetTables(tbls) ==
    CASE compression = "bz2" -> tbls \cup {"bzip2blocks"}
      [] compression = "gz" -> tbls \cup {"gzipindex"}
      [] OTHER -> tbls

\* The history of the files that are no more is dropped.
Forget(d) ==
    /\ crashed' = { c \in crashed : d[c].exists }
    /\ firstGetattr' = [c \in Candidates |-> IF d[c].exists THEN firstGetattr[c] ELSE <<>>]

\* Nothing is mounted, no index file exists yet.
MtInit ==
    /\ tarMembers \in MountArchives
    /\ compression \in Compressions
    /\ archiveStat \in { StatOf(tarMembers, 1, m) : m \in ArchiveModes }
    /\ writable \in [Candidates -> BOOLEAN]
    /\ GzIdle
    /\ disk = [c \in Candidates |-> NoFile]
    /\ pc = "unmounted"
    /\ mountRecursively = FALSE
    /\ scanned = 0
    /\ tables = {}
    /\ files = {}
    /\ filestmp = <<>>
    /\ parentfolders = {}
    /\ parentFolderCache = <<>>
    /\ indexFileName = 0
    /\ clearIndexCache = FALSE
    /\ created = FALSE
    /\ diskAtStart = [c \in Candidates |-> NoFile]
    /\ crashed = {}
    /\ firstGetattr = [c \in Candidates |-> <<>>]
    /\ RdIdle
    /\ SFIdle

\* Between two mounts the archive file is replaced, touched or chmod'ed.
ChangeArchive(ms, mtime, mode) ==
    /\ pc = "unmounted"
    /\ StatOf(ms, mtime, mode) # archiveStat \/ ms # tarMembers
    /\ tarMembers' = ms
    /\ archiveStat' = StatOf(ms, mtime, mode)
    /\ UNCHANGED <<mountRecursively, compression, pc, scanned, tables, files, filestmp,
                   parentfolders, parentFolderCache>>
    /\ UNCHANGED <<gzVars, disk, writable, indexFileName, clearIndexCache, created, diskAtStart,
                   crashed, firstGetattr>>
    /\ UNCHANGED <<sfVars, rdVars>>

\* __init__ up to the loop that looks for an index: with clearIndexCache the
\* candidates are removed.
MountInit(clear, recursive) ==
    /\ pc = "unmounted"
    /\ pc' = "load"
    /\ mountRecursively' = recursive
    /\ clearIndexCache' = clear
    /\ diskAtStart' = disk
    /\ disk' = IF clear THEN ClearIndexCache(disk) ELSE disk
    /\ Forget(disk')
    /\ UNCHANGED <<tarMembers, compression, scanned, tables, files, filestmp, parentfolders,
                   parentFolderCache>>
    /\ UNCHANGED <<gzVars, writable, archiveStat, indexFileName, created>>
    /\ UNCHANGED <<sfVars, rdVars>>

\* __init__: the loop over _tryLoadIndex.  With an index loaded,
\* _loadOrStoreCompressionOffsets, and TarMount.__init__ goes on to stat
\* the archive; without, the search for a place the index can be written to.
TryLoadIndexes ==
    LET st == TryLoadIndex([disk |-> disk, loaded |-> 0], 1)
        c == st.loaded
    IN /\ pc = "load"
       /\ IF c # 0
          THEN /\ indexFileName' = c
               /\ tables' = OffsetTables(st.disk[c].tables)
               /\ files' = st.disk[c].files
               /\ disk' = [st.disk EXCEPT ![c].tables = tables']
               /\ tarStats' = archiveStat
               /\ pc' = "mounted"
          ELSE /\ indexFileName' = FirstWritable
               /\ disk' = st.disk
               /\ pc' = "start"
               /\ UNCHANGED <<tables, files, tarStats>>
       /\ Forget(disk')
       /\ UNCHANGED <<tarMembers, mountRecursively, compression, scanned, filestmp,
                      parentfolders, parentFolderCache>>
       /\ UNCHANGED <<gzVars, writable, archiveStat, clearIndexCache, created, diskAtStart>>
       /\ UNCHANGED <<sfVars, fuseOp, fuseRet, thVars>>

\* __init__ after createIndex: _loadOrStoreCompressionOffsets.  For a gzip
\* archive it takes os.path.dirname( self.indexFileName ).
StoreCompressionOffsets ==
    /\ pc = "done"
    /\ IF compression = "gz" /\ indexFileName = 0
       THEN /\ pc' = "failed"
            /\ UNCHANGED <<tables, disk>>
       ELSE /\ pc' = "offsets"
            /\ tables' = OffsetTables(tables)
            /\ Persist(files, None)
    /\ UNCHANGED <<tarMembers, mountRecursively, compression, scanned, files, filestmp,
                   parentfolders, parentFolderCache, created>>
    /\ UNCHANGED <<sfVars, rdVars, mtKept>>

\* __init__ to its end: _storeTarMetadata, the line printed at printDebug >= 1
\* with os.stat( self.indexFileName ); then TarMount.__init__ stats the archive.
StoreTarMetadata(printDebug) ==
    /\ pc = "offsets"
    /\ tables' = tables \cup {"metadata"}
    /\ Persist(files, archiveStat)
    /\ IF printDebug >= 1 /\ indexFileName = 0
       THEN /\ pc' = "failed"
            /\ UNCHANGED <<tarStats, firstGetattr>>
       ELSE /\ pc' = "mounted"
            /\ tarStats' = archiveStat
            /\ firstGetattr' =
                 IF indexFileName = 0 THEN firstGetattr
                 ELSE [firstGetattr EXCEPT ![indexFileName] =
                         [path \in QueryPaths |->
                            GetattrOn(files, RootFileInfoOf(archiveStat), path, 0)]]
    /\ UNCHANGED <<tarMembers, mountRecursively, compression, scanned, files, filestmp,
                   parentfolders, parentFolderCache, created>>
    /\ UNCHANGED <<gzVars, writable, archiveStat, indexFileName, clearIndexCache, diskAtStart, crashed>>
    /\ UNCHANGED <<sfVars, fuseOp, fuseRet, thVars>>

\* The process is gone: what it held in memory is gone with it.
ProcessEnds ==
    /\ pc' = "unmounted"
    /\ mountRecursively' = FALSE
    /\ scanned' = 0
    /\ tables' = {}
    /\ files' = {}
    /\ filestmp' = <<>>
    /\ parentfolders' = {}
    /\ parentFolderCache' = <<>>
    /\ indexFileName' = 0
    /\ clearIndexCache' = FALSE
    /\ created' = FALSE
    /\ diskAtStart' = [c \in Candidates |-> NoFile]
    /\ tarStats' = NoStat
    /\ fuseOp' = NoFuseOp
    /\ fuseRet' = NoFuseRet
    /\ UNCHANGED <<gzVars, tarMembers, compression, writable, archiveStat, firstGetattr>>
    /\ UNCHANGED <<sfVars, thVars>>

\* The file system is unmounted.
Unmount ==
    /\ pc = "mounted"
    /\ fuseOp = NoFuseOp
    /\ ProcessEnds
    /\ UNCHANGED <<disk, crashed>>

\* __init__ raised: the process exits.
Exit ==
    /\ pc = "failed"
    /\ ProcessEnds
    /\ UNCHANGED <<disk, crashed>>

\* The index is under creation in the file at self.indexFileName.
Creating == pc \in {"scan", "finalized", "done", "offsets"} /\ indexFileName # 0

\* The process is killed between two steps of __init__.
Crash ==
    /\ pc \in {"load", "start", "scan", "finalized", "done", "offsets"}
    /\ crashed' = IF Creating THEN crashed \cup {indexFileName} ELSE crashed
    /\ ProcessEnds
    /\ UNCHANGED disk

\* The process is killed in cleanupDatabase, after the n-th statement.
CrashInCleanup(n) ==
    /\ pc = "scan"
    /\ scanned = Len(tarMembers)
    /\ indexFileName # 0
    /\ LET db == CleanupUpTo(Db, n)
       IN disk' = [disk EXCEPT ![indexFileName] = IndexFile(db.tables, db.files, None)]
    /\ crashed' = crashed \cup {indexFileName}
    /\ ProcessEnds

\* The process is killed in _storeTarMetadata, between the CREATE TABLE and
\* the commit of the tarstats row.
CrashInStoreTarMetadata ==
    /\ pc = "offsets"
    /\ indexFileName # 0
    /\ disk' = [disk EXCEPT ![indexFileName] = IndexFile(tables \cup {"metadata"}, files, None)]
    /\ crashed' = crashed \cup {indexFileName}
    /\ ProcessEnds

MtNext ==
    \/ \E ms \in MountArchives, mtime \in 1..MaxMtime, mode \in ArchiveModes :
          ChangeArchive(ms, mtime, mode)
    \/ \E clear \in BOOLEAN, recursive \in BOOLEAN : MountInit(clear, recursive)
    \/ TryLoadIndexes
    \/ CreateTables
    \/ IndexMember
    \/ Finalize
    \/ AddVersions
    \/ StoreCompressionOffsets
    \/ \E printDebug \in DebugLevels : StoreTarMetadata(printDebug)
    \/ Unmount
    \/ Exit
    \/ Crash
    \/ \E n \in 1..NumCleanupStatements - 1 : CrashInCleanup(n)
    \/ CrashInStoreTarMetadata
    \/ \E path \in QueryPaths : FuseGetattr(path)
    \/ FuseReturn

SpecMount == MtInit /\ [][MtNext]_vars

(***************************************************************************)
(* Properties of the index and of the read path                            *)
(***************************************************************************)

\* Full path of top-level member k, and whether no later member has it too.
TopFullPath(k) == NormName(tarMembers[k].name)
LastWithPath(k) == \A j \in k + 1..Len(tarMembers) : TopFullPath(j) # TopFullPath(k)
HasRow(fullPath) == \E r \in files : Key(r) = <<Front(fullPath), Last(fullPath)>>
RowOf(fullPath) == CHOOSE r \in files : Key(r) = <<Front(fullPath), Last(fullPath)>>

\* Where the payload of top-level member k lies in the archive stream.
PayloadStart(k) == MemberOffset(tarMembers, k) + BLOCKSIZE

\* C1: read( p, len, off ) on a regular non-sparse member, off in [0, size],
\* returns exactly the bytes [off, off+len) of the member's content, never a
\* byte outside its payload [offset_data, offset_data+size).
C1_ReadReturnsExactRange ==
    fuseOp.op = "read" =>
        \A k \in 1..Len(tarMembers) :
            LET m == tarMembers[k]
            IN (/\ m.type = REGTYPE /\ LastWithPath(k)
                /\ LookupKey(fuseOp.path) = LookupKey(TopFullPath(k))
                /\ fuseOp.offset <= m.size) =>
                   /\ fuseRet.errno = ""
                   /\ fuseRet.data = <<PayloadStart(k) + fuseOp.offset,
                                       PayloadStart(k) + Min(fuseOp.offset + fuseOp.length, m.size)>>

\* A directory mode that can be listed by whoever can read it.
IsListableDirMode(mode) ==
    /\ S_ISDIR(mode)
    /\ BitAnd(mode, S_IRUSR) # 0 => BitAnd(mode, S_IXUSR) # 0
    /\ BitAnd(mode, S_IRGRP) # 0 => BitAnd(mode, S_IXGRP) # 0
    /\ BitAnd(mode, S_IROTH) # 0 => BitAnd(mode, S_IXOTH) # 0

IsValidTarMember(m) == m.type = REGTYPE /\ Last(m.name) \in TarNames /\ m.kind = "tar"

\* What C8 says of top-level member k.
NestedTarIndexed(k) ==
    LET m == tarMembers[k]
    IN /\ HasRow(TopFullPath(k))
       /\ RowOf(TopFullPath(k)).istar
       /\ IsListableDirMode(RowOf(TopFullPath(k)).mode)
       /\ \A i \in 1..Len(m.inner) : HasRow(TopFullPath(k) \o NormName(m.inner[i].name))

\* C8 as stated: in recursive mode every regular member named *.tar whose
\* payload is a valid TAR has a row with is_tar and a listable directory mode,
\* and every member of the nested archive has a row under the member's path.
C8_EveryNestedTarIndexed ==
    (pc = "done" /\ mountRecursively) =>
        \A k \in 1..Len(tarMembers) : IsValidTarMember(tarMembers[k]) => NestedTarIndexed(k)

\* C8, amended: the same of every such member whose full path no later member
\* of the archive has (a later member with the same path replaces the row).
C8_LastNestedTarIndexed ==
    (pc = "done" /\ mountRecursively) =>
        \A k \in 1..Len(tarMembers) :
            (IsValidTarMember(tarMembers[k]) /\ LastWithPath(k)) => NestedTarIndexed(k)

\* An index of an archive that holds a valid nested TAR after another member.
C8_Witness ==
    /\ pc = "done" /\ mountRecursively
    /\ Len(tarMembers) = 2
    /\ IsValidTarMember(tarMembers[2])
    /\ \E r \in files : r.path = <<"inner.tar">> /\ r.name = "hello" /\ ~r.istar

\* C9: getattr (but for the root), readlink and read on a path that has no row
\* in "files" fail with ENOENT and return nothing.
C9_MissingPathIsENOENT ==
    (/\ fuseOp.op \in {"getattr", "readlink", "read"}
     /\ ~(fuseOp.op = "getattr" /\ fuseOp.path = <<>>)
     /\ ~\E r \in files : Key(r) = LookupKey(fuseOp.path)) =>
        fuseRet = Errno("ENOENT")

\* A read below a directory that is in the index, on a name that is not.
C9_Witness ==
    /\ fuseOp.op = "read" /\ fuseOp.path = <<"dir", "missing">> /\ fuseOp.length > 0
    /\ HasRow(<<"dir">>)
    /\ fuseRet.errno = "ENOENT"

\* C10: every st_mode getattr returns, for the root and through a hard link
\* too, has the write bits cleared; the root's is a directory mode.
C10_GetattrModeReadOnly ==
    (fuseOp.op = "getattr" /\ fuseRet.stat # <<>>) =>
        /\ BitAnd(fuseRet.stat.st_mode, WRITE_BITS) = 0
        /\ fuseOp.path = <<>> => S_ISDIR(fuseRet.stat.st_mode)

\* getattr through the hard link "hard" to a row stored with write bits.
C10_Witness ==
    /\ fuseOp.op = "getattr" /\ fuseOp.path = <<"hard">>
    /\ fuseRet.stat # <<>>
    /\ HasRow(<<"a">>) /\ BitAnd(RowOf(<<"a">>).mode, WRITE_BITS) # 0
    /\ fuseRet.stat.st_size = RowOf(<<"a">>).size

(***************************************************************************)
(* Properties of the index lifecycle                                       *)
(***************************************************************************)

\* A creation that ran to its end has left the tarstats in the file.
IsComplete(indexFile) == indexFile.exists /\ indexFile.tarstats # None

\* The mount under way found at candidate c an index a mount had created to
\* the end, for an archive whose size or mtime is not the archive's now.
FoundStale(c) ==
    /\ IsComplete(diskAtStart[c])
    /\ \/ diskAtStart[c].tarstats.st_size # archiveStat.st_size
       \/ diskAtStart[c].tarstats.st_mtime # archiveStat.st_mtime

\* The same, with size and mtime the archive's now, and no --recreate-index.
FoundUnchanged(c) ==
    /\ IsComplete(diskAtStart[c])
    /\ diskAtStart[c].tarstats.st_size = archiveStat.st_size
    /\ diskAtStart[c].tarstats.st_mtime = archiveStat.st_mtime
    /\ ~clearIndexCache

\* The rows createIndex makes of the archive as it is now.
FreshRows == CreateIndex(tarMembers, mountRecursively, streamed).files

C5_InterruptedIndexNeverLoaded ==
    (pc = "mounted" /\ ~created) => indexFileName \notin crashed

\* C6 as stated: a mount that finds the index a previous mount created, the
\* archive's size and mtime unchanged, loads it without running createIndex,
\* and getattr returns for every path what it returned in the creating mount.
C6_LoadedIndexSameGetattr ==
    \A c \in Candidates :
        (pc = "mounted" /\ FoundUnchanged(c)) =>
            /\ ~created /\ indexFileName = c
            /\ fuseOp.op = "getattr" => fuseRet = firstGetattr[c][fuseOp.path]

\* C6, amended: the same for every path but the root, whose entry is made of
\* the archive's stat at mount time.
C6_LoadedIndexSameGetattrOfMembers ==
    \A c \in Candidates :
        (pc = "mounted" /\ FoundUnchanged(c)) =>
            /\ ~created /\ indexFileName = c
            /\ (fuseOp.op = "getattr" /\ fuseOp.path # <<>>) =>
                   fuseRet = firstGetattr[c][fuseOp.path]

\* getattr of a nested member answered from a loaded index.
C6_Witness ==
    /\ pc = "mounted" /\ ~created
    /\ \E c \in Candidates : FoundUnchanged(c)
    /\ fuseOp.op = "getattr" /\ fuseOp.path = <<"inner.tar", "hello">>
    /\ fuseRet.stat # <<>>

\* C7: with clearIndexCache no index file is left when the loading starts,
\* none is loaded, and the mount serves what createIndex makes of the archive.
C7_RecreateIndexAlwaysCreates ==
    clearIndexCache =>
        /\ pc = "load" => \A c \in Candidates : ~disk[c].exists
        /\ pc \notin {"unmounted", "load", "start"} => created
        /\ pc = "mounted" => files = FreshRows

\* A mount with clearIndexCache is up that found an index it could have loaded.
C7_Witness ==
    /\ pc = "mounted" /\ clearIndexCache /\ created
    /\ \E c \in Candidates : diskAtStart[c].exists /\ LoadIndex(diskAtStart[c], archiveStat)

(***************************************************************************)
(* Properties of the link dereferencing of read                            *)
(***************************************************************************)

\* The path read has a row that is neither a regular file nor a symlink and
\* whose non-empty linkname is the path itself.
ReadsSelfLink ==
    /\ fuseOp.op = "read"
    /\ GetFileInfo(files, fuseOp.path) # None
    /\ IsHardLink(GetFileInfo(files, fuseOp.path))
    /\ GetFileInfo(files, fuseOp.path).linkname = fuseOp.path

\* C11: read on an entry that is neither a regular file nor a symlink and
\* whose linkname leads back to the path being read returns an error and no
\* bytes of the archive.
C11_SelfLinkReadIsError ==
    ReadsSelfLink => (fuseRet.errno # "" /\ fuseRet.data = <<0, 0>>)

(***************************************************************************)
(* TarMount on archives of hard links                                      *)
(***************************************************************************)

\* The members of the archives of links: a regular file, a link to it, a
\* link to that link, two links to each other and a link to itself.
LinkPool ==
    { Entry(<<"a">>, REGTYPE, 10, 420, <<>>),
      Entry(<<"hard">>, LNKTYPE, 0, 420, <<"a">>),
      Entry(<<"chain">>, LNKTYPE, 0, 420, <<"hard">>),
      Entry(<<"ping">>, LNKTYPE, 0, 420, <<"pong">>),
      Entry(<<"pong">>, LNKTYPE, 0, 420, <<"ping">>),
      Entry(<<"loop">>, LNKTYPE, 0, 420, <<"loop">>) }

MaxLinkMembers == 3

LinkArchives == UNION { [1..n -> LinkPool] : n \in 1..MaxLinkMembers }

LinkPaths == { m.name : m \in LinkPool }

\* The mount is up on an uncompressed archive of links.
LkInit ==
    /\ tarMembers \in LinkArchives
    /\ mountRecursively = FALSE
    /\ compression = ""
    /\ LET db == CreateIndex(tarMembers, mountRecursively, streamed)
       IN /\ files = db.files
          /\ filestmp = db.filestmp
          /\ parentfolders = db.parentfolders
          /\ parentFolderCache = db.cache
          /\ tables = db.tables
    /\ pc = "mounted"
    /\ scanned = Len(tarMembers)
    /\ tarStats \in { StatOf(tarMembers, 1, m) : m \in ArchiveModes }
    /\ fuseOp = NoFuseOp
    /\ fuseRet = NoFuseRet
    /\ ThIdle
    /\ SFIdle
    /\ MtIdle

LkNext ==
    \/ FuseReturn
    \/ \E path \in LinkPaths : FuseGetattr(path)
    \/ \E path \in LinkPaths : FuseReadlink(path)
    \/ \E path \in LinkPaths, length \in ReadLengths, off \in ReadOffsets :
          FuseRead(path, length, off)

SpecLinks == LkInit /\ [][LkNext]_vars

\* The row read( path ) would use if it followed the link of the entry at
\* path once and no further (None when the path or the link's target has no row).
OneHopRow(path) ==
    LET fileInfo == GetFileInfo(files, path)
    IN IF fileInfo = None THEN None
       ELSE IF IsHardLink(fileInfo) /\ fileInfo.linkname # path
            THEN GetFileInfo(files, fileInfo.linkname)
            ELSE fileInfo

\* C12: read follows at most one link per call, so that an entry reached
\* through a link is read as it is even when it is a link too, and read
\* comes to an end on every index, two links to each other included.
C12_ReadFollowsOneHop ==
    fuseOp.op = "read" =>
        /\ fuseRet.errno # "RecursionError"
        /\ OneHopRow(fuseOp.path) # None =>
              fuseRet = [NoFuseRet EXCEPT !.data =
                            TarFileRead(OneHopRow(fuseOp.path).offset + fuseOp.offset,
                                        fuseOp.length)]

(***************************************************************************)
(* Properties of the finalized "files" table                               *)
(***************************************************************************)

\* createIndex is past cleanupDatabase.
IsFinalized == pc \in {"finalized", "done"}

\* The row of "files" that the path column of row r names.
HasParentRow(r) == \E d \in files : Key(d) = <<Front(r.path), Last(r.path)>>
ParentRow(r) == CHOOSE d \in files : Key(d) = <<Front(r.path), Last(r.path)>>

\* The full paths of the members, at every level createIndex gets to, that
\* are neither directories nor nested archives it descends into.
RECURSIVE NonDirPaths(_, _)
NonDirPaths(ms, prefix) ==
    UNION { LET m == ms[k]
                fullPath == prefix \o NormName(m.name)
            IN IF Descends(m, mountRecursively, streamed)
               THEN IF m.kind = "tar" THEN NonDirPaths(m.inner, fullPath) ELSE {}
               ELSE IF m.type = DIRTYPE THEN {} ELSE {fullPath}
            : k \in 1..Len(ms) }

\* C13 as stated: in a finalized index every path value is '' or names a row
\* of "files" of type DIR.
C13_EveryPathIsDirTypeRow ==
    IsFinalized =>
        \A r \in files : r.path = <<>> \/ (HasParentRow(r) /\ ParentRow(r).type = DIRTYPE)

\* C13, amended: every path value is '' or names a row of "files"; that row
\* has a directory mode and is of type DIR or a nested archive (is_tar),
\* unless a member that is neither a directory nor a nested archive has
\* that very path.
C13_EveryPathIsDirectoryRow ==
    IsFinalized =>
        \A r \in files :
            \/ r.path = <<>>
            \/ /\ HasParentRow(r)
               /\ r.path \notin NonDirPaths(tarMembers, <<>>) =>
                     /\ S_ISDIR(ParentRow(r).mode)
                     /\ ParentRow(r).type = DIRTYPE \/ ParentRow(r).istar

\* A finalized index with a row below a synthesized directory row.
C13_Witness ==
    /\ IsFinalized
    /\ \E r \in files : /\ r.path = <<"dir">>
                        /\ HasParentRow(r)
                        /\ ParentRow(r) = SynthRow(<<<<>>, "dir">>)

(***************************************************************************)
(* createIndex run twice on one archive                                    *)
(***************************************************************************)

\* The index is created in the file of the first candidate.
RcInit ==
    /\ tarMembers \in Archives
    /\ mountRecursively \in BOOLEAN
    /\ compression \in Compressions
    /\ pc = "start"
    /\ scanned = 0
    /\ tables = {}
    /\ files = {}
    /\ filestmp = <<>>
    /\ parentfolders = {}
    /\ parentFolderCache = <<>>
    /\ disk = [c \in Candidates |-> NoFile]
    /\ writable = [c \in Candidates |-> TRUE]
    /\ GzIdle
    /\ archiveStat = StatOf(tarMembers, 1, S_IFREG)
    /\ indexFileName = 1
    /\ clearIndexCache = FALSE
    /\ created = FALSE
    /\ diskAtStart = [c \in Candidates |-> NoFile]
    /\ crashed = {}
    /\ firstGetattr = [c \in Candidates |-> <<>>]
    /\ SFIdle
    /\ RdIdle

\* The index is there; the archive is opened once more with clearIndexCache
\* and the same mountRecursively: the index file is removed and createIndex
\* starts over, in a new process, on the archive as it was.
Recreate ==
    /\ pc = "done"
    /\ ~clearIndexCache
    /\ clearIndexCache' = TRUE
    /\ diskAtStart' = disk
    /\ disk' = ClearIndexCache(disk)
    /\ pc' = "start"
    /\ scanned' = 0
    /\ SetDb([EmptyDb EXCEPT !.tables = {}])
    /\ created' = FALSE
    /\ UNCHANGED <<tarMembers, mountRecursively, compression>>
    /\ UNCHANGED <<gzVars, writable, archiveStat, indexFileName, crashed, firstGetattr>>
    /\ UNCHANGED <<sfVars, rdVars>>

RcNext == IxNext \/ Recreate

SpecRecreate == RcInit /\ [][RcNext]_vars

SeekArgs == -(TotalSize + 2 * MaxSeekOut)..(TotalSize + 2 * MaxSeekOut)

\* The position a seek is to set, in the words of io: from the start, from
\* the position now, from the end.
ResultingPosition(off, whence) ==
    IF whence = SEEK_SET THEN off
    ELSE IF whence = SEEK_CUR THEN offset + off
    ELSE TotalSize + off

\* C16: a seek whose resulting position is negative raises, whatever the
\* whence (SEEK_SET, SEEK_CUR or SEEK_END).
C16_NegativeSeekRaises ==
    [][\A whence \in {SEEK_SET, SEEK_CUR, SEEK_END}, off \in SeekArgs :
          (SFSeek(off, whence) /\ ResultingPosition(off, whence) < 0) =>
              (sfOp'.op = "seek" /\ sfOp'.raised)]_vars

\* A seek to a negative position has raised.
C16_Witness == sfOp.op = "seek" /\ sfOp.raised /\ offset < 0

(***************************************************************************)
(* TarMount.read in the threads of FUSE                                    *)
(***************************************************************************)

\* The values of --serialization-backend tried: the default and one of
\* IndexedTar.availableSerializationBackends.
Backends == {"sqlite", "pickle"}

\* cli: nothreads = args.serialization_backend == 'sqlite'.
nothreads == serializationBackend = "sqlite"

\* _openTar: a compressed archive gets the SQLite backend whatever was asked
\* for; so does every archive with the default.
UsesSqlite == compression # "" \/ serializationBackend = "sqlite"

\* Archives of two regular files, and their paths; for these IndexedTar and
\* SQLiteIndexedTar keep the same offset.
ThreadArchives ==
    { ms \in Archives : /\ Len(ms) = 2
                        /\ \A k \in 1..2 : ms[k].kind = "data" /\ ms[k].type = REGTYPE /\ ms[k].size > 0
                        /\ NormName(ms[1].name) # NormName(ms[2].name) }
ThreadPaths == { <<"a">>, <<"dir", "b">> }
ThreadReadLengths == {3}

\* The mount is up, with the backend asked for.
ThInit ==
    /\ tarMembers \in ThreadArchives
    /\ mountRecursively = FALSE
    /\ compression \in Compressions
    /\ serializationBackend \in Backends
    /\ LET db == CreateIndex(tarMembers, mountRecursively, streamed)
       IN /\ files = db.files
          /\ filestmp = db.filestmp
          /\ parentfolders = db.parentfolders
          /\ parentFolderCache = db.cache
          /\ tables = db.tables
    /\ pc = "mounted"
    /\ scanned = Len(tarMembers)
    /\ tarStats = StatOf(tarMembers, 1, S_IFREG)
    /\ fuseOp = NoFuseOp
    /\ fuseRet = NoFuseRet
    /\ tarFilePos = 0
    /\ threads = [t \in Threads |-> IdleThread]
    /\ SFIdle
    /\ MtIdle

\* TarMount.read of a regular file in thread t, up to self.tarFile.seek.
\* With nothreads FUSE hands out a call when no other is under way.  The
\* SQLite connection is that of the thread that made it: getFileInfo in a
\* thread of a multi-threaded FUSE raises.
ThreadSeek(t, path, length, off) ==
    LET fileInfo == GetFileInfo(files, path)
    IN /\ pc = "mounted"
       /\ threads[t].pc = "idle"
       /\ nothreads => \A u \in Threads : threads[u].pc = "idle"
       /\ fileInfo # None
       /\ S_ISREG(fileInfo.mode) /\ ~fileInfo.issparse
       /\ IF UsesSqlite /\ ~nothreads
          THEN /\ threads' = [threads EXCEPT ![t] =
                     [IdleThread EXCEPT !.pc = "returned", !.errno = "ProgrammingError"]]
               /\ UNCHANGED tarFilePos
          ELSE /\ threads' = [threads EXCEPT ![t] =
                     [IdleThread EXCEPT !.pc = "sought", !.pos = fileInfo.offset + off,
                                        !.length = length]]
               /\ tarFilePos' = fileInfo.offset + off
       /\ UNCHANGED <<tarStats, fuseOp, fuseRet, serializationBackend>>
       /\ UNCHANGED <<sfVars, ixVars, mtVars>>

\* The same call goes on: return self.tarFile.read( length ).
ThreadRead(t) ==
    LET data == TarFileRead(tarFilePos, threads[t].length)
    IN /\ threads[t].pc = "sought"
       /\ threads' = [threads EXCEPT ![t].pc = "returned", ![t].data = data]
       /\ tarFilePos' = data[2]
       /\ UNCHANGED <<tarStats, fuseOp, fuseRet, serializationBackend>>
       /\ UNCHANGED <<sfVars, ixVars, mtVars>>

\* The result is handed back to FUSE.
ThreadReturn(t) ==
    /\ threads[t].pc = "returned"
    /\ threads' = [threads EXCEPT ![t] = IdleThread]
    /\ UNCHANGED <<tarStats, fuseOp, fuseRet, serializationBackend, tarFilePos>>
    /\ UNCHANGED <<sfVars, ixVars, mtVars>>

ThNext ==
    \E t \in Threads :
        \/ \E path \in ThreadPaths, length \in ThreadReadLengths, off \in ReadOffsets :
              ThreadSeek(t, path, length, off)
        \/ ThreadRead(t)
        \/ ThreadReturn(t)

SpecThreads == ThInit /\ [][ThNext]_vars

\* C15: whatever the compression and the backend asked for, no read seeks or
\* reads self.tarFile between the seek and the read of another: two reads are
\* never both past their seek and before their read, and what a read returns
\* are the bytes at the position it sought.
C15_SeekAndReadNotInterleaved ==
    /\ \A t, u \in Threads :
          (t # u /\ threads[t].pc = "sought") => threads[u].pc # "sought"
    /\ \A t \in Threads :
          (threads[t].pc = "returned" /\ threads[t].errno = "") =>
              threads[t].data = TarFileRead(threads[t].pos, threads[t].length)

(***************************************************************************)
(* _loadOrStoreCompressionOffsets of a gzip archive and its temporary      *)
(* files                                                                   *)
(***************************************************************************)

\* The name of the file mkstemp makes in a step: a new name every time.
TmpName(step) == step

\* os.remove( name ), the exception for a name that is no file swallowed.
Remove(fs, name) == fs \ {name}

\* mkstemp( dir = tmpDir ) can make a file: in the folder of the index
\* (pass 1) when files can be created there, in the default folder (pass 2)
\* when there is room.
CanMake(k, made) == (made /\ k = 1) => writable[indexFileName]

\* The index of a gzip archive is complete, loaded from the file at
\* self.indexFileName or created there, with or without the "gzipindex"
\* table.
GzInit ==
    /\ tarMembers \in MountArchives
    /\ mountRecursively \in BOOLEAN
    /\ compression = "gz"
    /\ LET db == CreateIndex(tarMembers, mountRecursively, streamed)
       IN /\ files = db.files
          /\ filestmp = db.filestmp
          /\ parentfolders = db.parentfolders
          /\ parentFolderCache = db.cache
          /\ tables \in {db.tables, db.tables \cup {"gzipindex"}}
    /\ pc = "gz_load1"
    /\ scanned = Len(tarMembers)
    /\ archiveStat = StatOf(tarMembers, 1, S_IFREG)
    /\ writable \in [Candidates -> BOOLEAN]
    /\ indexFileName \in Candidates
    /\ disk = [c \in Candidates |->
                 IF c = indexFileName THEN IndexFile(tables, files, None) ELSE NoFile]
    /\ clearIndexCache = FALSE
    /\ created = FALSE
    /\ diskAtStart = [c \in Candidates |-> NoFile]
    /\ crashed = {}
    /\ firstGetattr = [c \in Candidates |-> <<>>]
    /\ GzIdle
    /\ SFIdle
    /\ RdIdle

\* What the gzip branch leaves alone but for the database.
GzKeeps ==
    /\ UNCHANGED <<tarMembers, mountRecursively, compression, scanned, files, filestmp,
                   parentfolders, parentFolderCache>>
    /\ UNCHANGED <<writable, archiveStat, indexFileName, clearIndexCache, created, diskAtStart,
                   crashed, firstGetattr>>
    /\ UNCHANGED <<sfVars, rdVars>>

\* A pass of the first loop, over the folder of the index (k = 1) and the
\* default folder (k = 2): mkstemp, then the data of "gzipindex" written to
\* the file; on any exception os.remove( gzindex ) and gzindex = None.  When
\* mkstemp raises, gzindex still is what the pass before left.
GzLoadTry(k) ==
    \E made \in BOOLEAN :
        LET name == TmpName(pc)
        IN /\ pc = (IF k = 1 THEN "gz_load1" ELSE "gz_load2")
           /\ CanMake(k, made)
           /\ pc' = (IF k = 1 THEN "gz_load2" ELSE "gz_import")
           /\ IF made /\ "gzipindex" \in tables
              THEN /\ tmpFiles' = tmpFiles \cup {name}
                   /\ gzindex' = name
              ELSE /\ tmpFiles' = Remove(tmpFiles, IF made THEN name ELSE gzindex)
                   /\ gzindex' = "None"
           /\ UNCHANGED <<tables, disk>>
           /\ GzKeeps

\* fileObject.import_index( filename = gzindex ): return when it takes the
\* file; else os.remove( gzindex ), and the archive is read to its end.
GzImport ==
    \E ok \in BOOLEAN :
        /\ pc = "gz_import"
        /\ ok => gzindex # "None"
        /\ IF ok
           THEN /\ pc' = "returned"
                /\ UNCHANGED gzVars
           ELSE /\ pc' = "gz_export1"
                /\ tmpFiles' = Remove(tmpFiles, gzindex)
                /\ gzindex' = "None"
        /\ UNCHANGED <<tables, disk>>
        /\ GzKeeps

\* A pass of the second loop: mkstemp outside the try, export_index in it;
\* on ZranError os.remove( gzindex ) and gzindex = None.
GzExportTry(k) ==
    \E made \in BOOLEAN, ok \in BOOLEAN :
        LET name == TmpName(pc)
        IN /\ pc = (IF k = 1 THEN "gz_export1" ELSE "gz_export2")
           /\ CanMake(k, made)
           /\ IF ~made
              THEN /\ pc' = "raised"
                   /\ UNCHANGED gzVars
              ELSE /\ pc' = (IF k = 1 THEN "gz_export2" ELSE "gz_store")
                   /\ tmpFiles' = IF ok THEN tmpFiles \cup {name} ELSE tmpFiles
                   /\ gzindex' = IF ok THEN name ELSE "None"
           /\ UNCHANGED <<tables, disk>>
           /\ GzKeeps

\* Without a file the exception; with one the table "gzipindex" made of it,
\* the commit, os.remove( gzindex ).
GzStore ==
    /\ pc = "gz_store"
    /\ IF gzindex = "None"
       THEN /\ pc' = "raised"
            /\ UNCHANGED <<tables, disk, gzVars>>
       ELSE /\ pc' = "returned"
            /\ tables' = tables \cup {"gzipindex"}
            /\ disk' = [disk EXCEPT ![indexFileName].tables = tables']
            /\ tmpFiles' = Remove(tmpFiles, gzindex)
            /\ UNCHANGED gzindex
    /\ GzKeeps

GzNext ==
    \/ \E k \in 1..2 : GzLoadTry(k)
    \/ GzImport
    \/ \E k \in 1..2 : GzExportTry(k)
    \/ GzStore

SpecGzip == GzInit /\ [][GzNext]_vars

\* C18: when _loadOrStoreCompressionOffsets has returned or raised, none of
\* the temporary files it made for the gzip seek table is left.
C18_TempFilesDeleted ==
    pc \in {"returned", "raised"} => tmpFiles = {}

(***************************************************************************)
(* createIndex on archives with sparse members                             *)
(***************************************************************************)

\* Members with holes: tarInfo.size is the size of the expanded file, the
\* archive stores less.  One of them expands to more than the archive is long.
SparsePool ==
    { Sparse(<<"s">>, 5000, 512, 420),
      Sparse(<<"t">>, 600, 100, 420),
      Entry(<<"a">>, REGTYPE, 10, 420, <<>>),
      Entry(<<".", "dir", "b">>, REGTYPE, 513, 384, <<>>),
      NestedTar(<<"inner.tar">>, 420, <<Entry(<<"hello">>, REGTYPE, 5, 420, <<>>)>>) }

SparseArchives == UNION { [1..n -> SparsePool] : n \in 1..MaxMembers }

SpInit ==
    /\ tarMembers \in SparseArchives
    /\ mountRecursively \in BOOLEAN
    /\ compression \in Compressions
    /\ pc = "start"
    /\ scanned = 0
    /\ tables = {}
    /\ files = {}
    /\ filestmp = <<>>
    /\ parentfolders = {}
    /\ parentFolderCache = <<>>
    /\ SFIdle
    /\ RdIdle
    /\ MtIdle

SpecSparse == SpInit /\ [][IxNext]_vars

\* The length of the archive, uncompressed.
ArchiveSize == TarLen(tarMembers)

C19_ScanFillsFilesTmp ==
    pc = "scan" =>
        /\ files = {}
        /\ \A k \in 1..scanned :
              \E i \in 1..Len(filestmp) : Key(filestmp[i]) = <<Front(TopFullPath(k)), Last(TopFullPath(k))>>

\* C20: the finalized "files" has one row at most for a (path, name), and
\* for a path that several members have the row is that of the last of them
\* in the archive: its header and data offsets, its size, type and linkname.
C20_LastDuplicateSurvives ==
    IsFinalized =>
        /\ \A r1, r2 \in files : Key(r1) = Key(r2) => r1 = r2
        /\ \A k \in 1..Len(tarMembers) :
              LastWithPath(k) =>
                  /\ HasRow(TopFullPath(k))
                  /\ RowOf(TopFullPath(k)).offsetheader = MemberOffset(tarMembers, k)
                  /\ RowOf(TopFullPath(k)).offset = PayloadStart(k)
                  /\ RowOf(TopFullPath(k)).size = tarMembers[k].size
                  /\ RowOf(TopFullPath(k)).type = tarMembers[k].type
                  /\ RowOf(TopFullPath(k)).linkname = tarMembers[k].linkname

\* A finalized index of an archive with two members of one path that differ
\* in size: the row has the size of the second.
C20_Witness ==
    /\ IsFinalized
    /\ Len(tarMembers) = 2
    /\ TopFullPath(1) = TopFullPath(2)
    /\ tarMembers[1].size # tarMembers[2].size
    /\ RowOf(TopFullPath(2)).size = tarMembers[2].size

(***************************************************************************)
(* Properties of the finalization                                          *)
(***************************************************************************)

\* The row the finalization is to make of a (path, name) without a row.
SynthesizedDirectory(key) ==
    [path |-> key[1], name |-> key[2], offsetheader |-> 0, offset |-> 0, size |-> 1,
     mtime |-> 0, mode |-> S_IFDIR + SYNTH_DIR_PERM, type |-> DIRTYPE, linkname |-> <<>>,
     uid |-> 0, gid |-> 0, istar |-> FALSE, issparse |-> FALSE]

\* C21: the finalization adds to "files" a synthesized directory row for each
\* row of "parentfolders" that has no row in "files", and nothing else; it
\* leaves the rows of the members as they are; after it "filestmp" and
\* "parentfolders" are gone.
C21_FinalizationSynthesizesMissing ==
    [][(pc = "scan" /\ pc' = "finalized") =>
          /\ files \subseteq files'
          /\ files' \ files =
                { SynthesizedDirectory(key) :
                    key \in { q \in parentfolders : ~\E r \in files : Key(r) = q } }
          /\ "filestmp" \notin tables' /\ "parentfolders" \notin tables'
          /\ "files" \in tables']_vars

\* A finalized index with a synthesized row for a folder without a member,
\* and the row of a member whose path "parentfolders" had as well.
C21_Witness ==
    /\ pc = "finalized"
    /\ SynthesizedDirectory(<<<<>>, "dir">>) \in files
    /\ \E r \in files : r.istar /\ \E c \in files : c.path = r.path \o <<r.name>>

(***************************************************************************)
(* createIndex on archives with members deep in folders                    *)
(***************************************************************************)

\* The file "f" below n folders named c.
Deep(c, n) == Entry([i \in 1..n |-> c] \o <<"f">>, REGTYPE, 10, 420, <<>>)

\* Two members nine folders deep, one two folders deep in the folders of the
\* first, one seventeen folders deep.
DeepPool == { Deep("a", 9), Deep("b", 9), Deep("a", 2), Deep("c", 17) }

MaxDeepMembers == 3
DeepArchives == UNION { [1..n -> DeepPool] : n \in 1..MaxDeepMembers }

DpInit ==
    /\ tarMembers \in DeepArchives
    /\ mountRecursively \in BOOLEAN
    /\ compression \in Compressions
    /\ pc = "start"
    /\ scanned = 0
    /\ tables = {}
    /\ files = {}
    /\ filestmp = <<>>
    /\ parentfolders = {}
    /\ parentFolderCache = <<>>
    /\ SFIdle
    /\ RdIdle
    /\ MtIdle

SpecDeep == DpInit /\ [][IxNext]_vars

\* The (path, name) of the folders above a member whose path column is path,
\* from the top down.
Ancestors(path) == [ i \in 1..Len(path) |-> <<SubSeq(path, 1, i - 1), path[i]>> ]

\* Those of them the cache does not hold.
Tried(path) == SelectSeq(Ancestors(path), LAMBDA p : \A j \in 1..Len(parentFolderCache) : parentFolderCache[j] # p)

\* The last n elements of a sequence.
LastN(s, n) == SubSeq(s, Len(s) - n + 1, Len(s))

\* C22: the cache never holds more than 16 entries, and a call of
\* _tryAddParentFolders that would make it longer than 16 leaves in it the 8
\* entries appended last.
C22_CacheCutToEight ==
    /\ [](Len(parentFolderCache) <= 16)
    /\ [][(pc = "scan" /\ scanned' = scanned + 1) =>
             LET tried == Tried(Front(TopFullPath(scanned + 1)))
                 grown == parentFolderCache \o tried
             IN parentFolderCache' = IF Len(grown) > 16 THEN LastN(grown, 8) ELSE grown]_vars

\* The cache has been cut: it holds 8 entries of the more than 16 tried.
C22_Witness ==
    /\ pc = "scan"
    /\ Len(parentFolderCache) = 8
    /\ Cardinality(parentfolders) > 16

\* C27: when the members have been iterated, "parentfolders" holds the
\* (path, name) of every folder above every one of them, those the cache has
\* dropped since included; so for the members of nested archives, which by
\* then have their rows in "files".
C27_EveryAncestorRecorded ==
    (pc = "scan" /\ scanned = Len(tarMembers)) =>
        /\ \A k \in 1..Len(tarMembers) :
              \A i \in 1..Len(TopFullPath(k)) - 1 :
                  <<SubSeq(TopFullPath(k), 1, i - 1), TopFullPath(k)[i]>> \in parentfolders
        /\ \A r \in files :
              \A i \in 1..Len(r.path) : <<SubSeq(r.path, 1, i - 1), r.path[i]>> \in parentfolders

\* The scan is over, and the cache has dropped a folder of a member.
C27_Witness ==
    /\ pc = "scan" /\ scanned = Len(tarMembers)
    /\ \E k \in 1..Len(tarMembers) :
          /\ Len(TopFullPath(k)) > 1
          /\ \A j \in 1..Len(parentFolderCache) : parentFolderCache[j] # <<<<>>, TopFullPath(k)[1]>>
          /\ <<<<>>, TopFullPath(k)[1]>> \in parentfolders

(***************************************************************************)
(* Properties of the descent into nested archives                          *)
(***************************************************************************)

\* Member k is a regular member named *.tar whose payload is no TAR, and no
\* other member has its path.
IsOnlyJunkTar(k) ==
    /\ tarMembers[k].kind = "junk"
    /\ IsFile(tarMembers[k]) /\ Last(tarMembers[k].name) \in TarNames
    /\ \A j \in 1..Len(tarMembers) : j # k => TopFullPath(j) # TopFullPath(k)

\* C23: with recursive mounting a member named *.tar that cannot be
\* descended into has the row of a plain regular file, is_tar not set, and
\* no row lies below its path.
C23_FailedDescentIsPlainFile ==
    (IsFinalized /\ mountRecursively) =>
        \A k \in 1..Len(tarMembers) :
            IsOnlyJunkTar(k) =>
                /\ HasRow(TopFullPath(k))
                /\ ~RowOf(TopFullPath(k)).istar
                /\ S_ISREG(RowOf(TopFullPath(k)).mode)
                /\ \A r \in files :
                      ~(/\ Len(r.path) >= Len(TopFullPath(k))
                        /\ SubSeq(r.path, 1, Len(TopFullPath(k))) = TopFullPath(k))

(***************************************************************************)
(* createIndex on archives nested in nested archives                       *)
(***************************************************************************)

\* A TAR in a TAR, and members before it that shift it in the archive.
NestedPool ==
    { Entry(<<"a">>, REGTYPE, 10, 420, <<>>),
      Entry(<<".", "dir", "b">>, REGTYPE, 513, 384, <<>>),
      NestedTar(<<"inner.tar">>, 420,
                <<Entry(<<"hello">>, REGTYPE, 5, 420, <<>>),
                  NestedTar(<<"inner.tar">>, 420, <<Entry(<<"hello">>, REGTYPE, 5, 420, <<>>)>>)>>) }

NestedArchives == UNION { [1..n -> NestedPool] : n \in 1..MaxMembers }

NsInit ==
    /\ tarMembers \in NestedArchives
    /\ mountRecursively \in BOOLEAN
    /\ compression \in Compressions
    /\ pc = "start"
    /\ scanned = 0
    /\ tables = {}
    /\ files = {}
    /\ filestmp = <<>>
    /\ parentfolders = {}
    /\ parentFolderCache = <<>>
    /\ SFIdle
    /\ RdIdle
    /\ MtIdle

SpecNested == NsInit /\ [][IxNext]_vars

\* Where the members lie in the outermost archive, those of the nested
\* archives included: the payload of a nested archive starts at the data
\* offset of the member that holds it.  <<full path, header, data>>.
RECURSIVE AbsolutePositions(_, _, _)
AbsolutePositions(ms, start, prefix) ==
    UNION { LET header == start + MembersLen(SubSeq(ms, 1, k - 1))
                data == header + BLOCKSIZE
                fullPath == prefix \o NormName(ms[k].name)
            IN {<<fullPath, header, data>>} \cup
               (IF ms[k].kind = "tar" THEN AbsolutePositions(ms[k].inner, data, fullPath) ELSE {})
            : k \in 1..Len(ms) }

\* C24: the offsets of every row of a member, at any depth of nesting, are
\* those of the member in the outermost uncompressed archive, for seekable
\* and for streamed archives.
C24_NestedOffsetsAbsolute ==
    IsFinalized =>
        \A r \in files :
            \/ r = SynthesizedDirectory(Key(r))
            \/ <<r.path \o <<r.name>>, r.offsetheader, r.offset>> \in AbsolutePositions(tarMembers, 0, <<>>)

\* A finalized index of a streamed archive with the row of a member two
\* archives deep, behind another member.
C24_Witness ==
    /\ IsFinalized /\ streamed
    /\ Len(tarMembers) = 2
    /\ \E r \in files : r.path = <<"inner.tar", "inner.tar">> /\ r.offsetheader > TarLen(tarMembers[2].inner)

(***************************************************************************)
(* createIndex on archives that are cut off                                *)
(***************************************************************************)

\* Regular members, one in a folder without a member of its own.
CutPool ==
    { Entry(<<"a">>, REGTYPE, 10, 420, <<>>),
      Entry(<<".", "dir", "b">>, REGTYPE, 513, 384, <<>>),
      Entry(<<"dir">>, DIRTYPE, 0, 493, <<>>) }

CutArchives == UNION { [1..n -> CutPool] : n \in 1..MaxMembers }

\* Where the file ends: in a header block, at its end, in the data, at the
\* end of the data.
CutOffsets == {0, 100}
CutSizes(ms) ==
    { size \in { MemberOffset(ms, k) + d : k \in 1..Len(ms), d \in CutOffsets } \cup
               { MemberOffset(ms, k) + BLOCKSIZE + d : k \in 1..Len(ms), d \in CutOffsets } \cup
               { MembersLen(ms) } :
      size < TarLen(ms) }

\* createIndex is called on the cut archive, the index goes to the first
\* candidate.
CtInit ==
    /\ tarMembers \in CutArchives
    /\ mountRecursively \in BOOLEAN
    /\ compression \in Compressions
    /\ pc = "start"
    /\ scanned = 0
    /\ tables = {}
    /\ files = {}
    /\ filestmp = <<>>
    /\ parentfolders = {}
    /\ parentFolderCache = <<>>
    /\ disk = [c \in Candidates |-> NoFile]
    /\ writable = [c \in Candidates |-> TRUE]
    /\ GzIdle
    /\ archiveStat \in { [StatOf(tarMembers, 1, S_IFREG) EXCEPT !.st_size = size] :
                          size \in CutSizes(tarMembers) }
    /\ indexFileName = 1
    /\ clearIndexCache = FALSE
    /\ created = FALSE
    /\ diskAtStart = [c \in Candidates |-> NoFile]
    /\ crashed = {}
    /\ firstGetattr = [c \in Candidates |-> <<>>]
    /\ SFIdle
    /\ RdIdle

SpecTruncated == CtInit /\ [][IxNext]_vars

\* The header block of member k is in the file.
HeaderRead(k) == MemberOffset(tarMembers, k) + BLOCKSIZE <= FileSize

\* "files" has the rows of the members read and of their folders, no other,
\* and they are committed to the index file.
IndexOfMembersRead ==
    /\ \A k \in 1..Len(tarMembers) : HeaderRead(k) => HasRow(TopFullPath(k))
    /\ \A r \in files :
          \/ \E k \in 1..Len(tarMembers) :
                /\ HeaderRead(k)
                /\ TopFullPath(k) = r.path \o <<r.name>>
                /\ r.offsetheader = MemberOffset(tarMembers, k)
          \/ /\ r = SynthesizedDirectory(Key(r))
             /\ \E k \in 1..Len(tarMembers) :
                   /\ HeaderRead(k)
                   /\ Len(TopFullPath(k)) > Len(r.path) + 1
                   /\ SubSeq(TopFullPath(k), 1, Len(r.path) + 1) = r.path \o <<r.name>>
    /\ disk[indexFileName].files = files

FoundFiles(ms, st) ==
    { NoFile,
      IndexFile({"files", "versions", "metadata"}, CreateIndex(ms, FALSE, FALSE).files, st),
      IndexFile({"files", "versions", "metadata"}, CreateIndex(ms, FALSE, FALSE).files,
                [st EXCEPT !.st_mtime = 0]),
      IndexFile({"files", "filestmp", "parentfolders"}, {}, None) }

\* The archive is about to be mounted; index files lie where files can be
\* created.
CdInit ==
    /\ tarMembers \in MountArchives
    /\ compression \in Compressions
    /\ archiveStat = StatOf(tarMembers, 1, S_IFREG)
    /\ writable \in [Candidates -> BOOLEAN]
    /\ disk \in [Candidates -> FoundFiles(tarMembers, archiveStat)]
    /\ \A c \in Candidates : disk[c].exists => writable[c]
    /\ pc = "unmounted"
    /\ mountRecursively = FALSE
    /\ scanned = 0
    /\ tables = {}
    /\ files = {}
    /\ filestmp = <<>>
    /\ parentfolders = {}
    /\ parentFolderCache = <<>>
    /\ indexFileName = 0
    /\ clearIndexCache = FALSE
    /\ created = FALSE
    /\ diskAtStart = [c \in Candidates |-> NoFile]
    /\ crashed = {}
    /\ firstGetattr = [c \in Candidates |-> <<>>]
    /\ GzIdle
    /\ RdIdle
    /\ SFIdle

\* One mount, from __init__ to its end.
CdNext ==
    \/ \E clear \in BOOLEAN, recursive \in BOOLEAN : MountInit(clear, recursive)
    \/ TryLoadIndexes
    \/ CreateTables
    \/ IndexMember
    \/ Finalize
    \/ AddVersions
    \/ StoreCompressionOffsets
    \/ \E printDebug \in DebugLevels : StoreTarMetadata(printDebug)

SpecCandidates == CdInit /\ [][CdNext]_vars

\* The file at candidate c passes the checks of loadIndex.
PassesValidation(c) ==
    /\ disk[c].exists
    /\ "files" \in disk[c].tables
    /\ "filestmp" \notin disk[c].tables /\ "parentfolders" \notin disk[c].tables
    /\ "bzip2blocks" \in disk[c].tables => "versions" \in disk[c].tables
    /\ disk[c].tarstats # None =>
          /\ disk[c].tarstats.st_size = archiveStat.st_size
          /\ disk[c].tarstats.st_mtime = archiveStat.st_mtime

\* The first candidate of a set, 0 when it is empty.
FirstOf(cs) == IF cs = {} THEN 0 ELSE CHOOSE c \in cs : \A d \in cs : c <= d

C28_FailedSeekKeepsPosition ==
    [][(sfOp'.op = "seek" /\ sfOp'.raised) => (offset' = offset /\ offset' >= 0)]_vars

(***************************************************************************)
(* TarMount.getattr on hard links that lead back to themselves             *)
(***************************************************************************)

\* C29: getattr comes to an end for every content of the index: following
\* hard links it does not call itself without bound, a link to itself and
\* links to each other included.
C29_GetattrDereferenceBounded ==
    fuseOp.op = "getattr" => fuseRet.errno # "RecursionError"

(***************************************************************************)
(* SQLiteIndexedTar.__init__ with no place to write the index to           *)
(***************************************************************************)

\* C30: when no index is loaded and a file can be created at neither
\* candidate, the construction of SQLiteIndexedTar still comes to its end,
\* the index kept in memory, for an archive of every compression.
C30_UnwritableStillMounts ==
    (indexFileName = 0 /\ \A c \in Candidates : ~writable[c]) => pc # "failed"

====
